---- MODULE Spec2Model ----
(***************************************************************************)
(* VulkanHelper: the device / surface capability selector, the VulkanBase  *)
(* aggregate that drives it, and the wrappers of the native calls.         *)
(*                                                                         *)
(*   Vulkan::Tools::RatePhysicalDevice          (Tools header, old layout) *)
(*   Vulkan::Tools::SelectBestPhysicalDevice                               *)
(*   Vulkan::Tools::SelectSwapchainSurfaceFormat                           *)
(*   Vulkan::Tools::SelectSwapchainSurfacePresentMode                      *)
(*   Vulkan::Tools::SelectSwapchainSurfaceImageExtent                      *)
(*   Vulkan::Tools::VulkanBase                   (methods, in any order)   *)
(*   Vulkan::Create..., Enumerate..., Get...    (result-code handling)     *)
(*                                                                         *)
(* The Vulkan driver and SDL are the environment: what they report (the    *)
(* adapters of the host, their limits, queue families, extensions, the     *)
(* surface's formats, present modes and capabilities, the window size) is  *)
(* drawn from bounded sets in the initial states.  In the specifications   *)
(* of the selector every native query is taken to succeed and to write its *)
(* output parameter; in SpecBase the creation calls return any VkResult,   *)
(* and in SpecWrap every native call does.                                 *)
(***************************************************************************)
EXTENDS Integers, Sequences, FiniteSets, TLC

VARIABLES
    surface,                \* VkSurfaceKHR handed to the rating / selection
    adapter,                \* SpecRate: the VkPhysicalDevice being rated
    rate,                   \* SpecRate: the call of RatePhysicalDevice
    instance,               \* SpecSelect: VkInstance handed to the selection
    physicalDeviceList,     \* SpecSelect: what EnumeratePhysicalDevices yields
    pc,                     \* SpecSelect: position in SelectBestPhysicalDevice
    i,                      \* SpecSelect: position of the range-for (1-based)
    score,                  \* SpecSelect: local `score`
    selectedPhysicalDevice, \* SpecSelect: local `selectedPhysicalDevice`
    returned,               \* SpecSelect: the handle returned to the caller
    formats,                \* SpecFormat: argument of SelectSwapchainSurfaceFormat
    selectedFormat,         \* SpecFormat: the call and its result
    presentModes,           \* SpecPresentMode: argument of SelectSwapchainSurfacePresentMode
    selectedPresentMode,    \* SpecPresentMode: the call and its result
    capabilities,           \* SpecExtent: VkSurfaceCapabilitiesKHR
    window,                 \* SpecExtent: what SDL_GetWindowSize reports (int w, h)
    selectedExtent,         \* SpecExtent: the call and its result
    host,                   \* SpecBase: what the driver reports on this host
    base,                   \* SpecBase: the members of the VulkanBase object
    call,                   \* SpecBase: the last call on the object and how it ended
    wrap,                   \* SpecWrap: the call of a wrapper of a native call
    query,                  \* SpecQuery: the call of a queue family query
    info                    \* SpecInfo: the call of Init::SwapchainCreateInfo

rateVars    == <<adapter, rate>>
selectVars  == <<instance, physicalDeviceList, pc, i, score, selectedPhysicalDevice, returned>>
formatVars  == <<formats, selectedFormat>>
modeVars    == <<presentModes, selectedPresentMode>>
extentVars  == <<capabilities, window, selectedExtent>>
toolVars    == <<surface, rateVars, selectVars, formatVars, modeVars, extentVars>>
baseVars    == <<host, base, call>>
wrapVars    == <<wrap>>
queryVars   == <<query>>
infoVars    == <<info>>
vars == <<toolVars, baseVars, wrapVars, queryVars, infoVars>>

----------------------------------------------------------------------------
(* Bounds of the model.                                                    *)

MaxQueues  == 2     \* queue families per adapter
MaxDevices == 2     \* adapters on the host
MaxFormats == 3     \* entries of a surface-format list
MaxModes   == 3     \* entries of a present-mode list
MaxNames   == 3     \* entries of instanceExtensions up to which a name is pushed
MaxEntries == 2     \* the count an enumeration call reports

----------------------------------------------------------------------------
(* uint32: a value is kept as two 16-bit limbs, so that every operation    *)
(* wraps at 2^32 exactly as the C++ arithmetic on uint32 does.             *)

Limb == 2^16

\* static_cast<uint32>(n) for an int n
U32(n) == [hi |-> (n \div Limb) % Limb, lo |-> n % Limb]

U32Limbs(h, l) == [hi |-> h, lo |-> l]

UINT32_MAX == U32Limbs(Limb - 1, Limb - 1)

\* a + b on uint32
U32Add(a, b) ==
    LET lo == a.lo + b.lo
    IN  [hi |-> (a.hi + b.hi + (lo \div Limb)) % Limb, lo |-> lo % Limb]

\* a * k on uint32, for a weight k < 2^15
U32Mul(a, k) ==
    LET lo == a.lo * k
    IN  [hi |-> (a.hi * k + (lo \div Limb)) % Limb, lo |-> lo % Limb]

\* a < b on uint32
U32Less(a, b) == a.hi < b.hi \/ (a.hi = b.hi /\ a.lo < b.lo)

\* std::min / std::max on uint32: std::min(a, b) is b < a ? b : a,
\* std::max(a, b) is a < b ? b : a
U32Min(a, b) == IF U32Less(b, a) THEN b ELSE a
U32Max(a, b) == IF U32Less(a, b) THEN b ELSE a

----------------------------------------------------------------------------
(* Handles.                                                                *)

VK_NULL_HANDLE == "VK_NULL_HANDLE"
Surfaces  == {VK_NULL_HANDLE, "surface"}
Instances == {VK_NULL_HANDLE, "instance"}

----------------------------------------------------------------------------
(* What the driver reports about an adapter.                               *)

VK_KHR_SWAPCHAIN_EXTENSION_NAME == "VK_KHR_swapchain"

\* VkQueueFamilyProperties::queueFlags, and what
\* vkGetPhysicalDeviceSurfaceSupportKHR reports for the family
QueueFamilies ==
    [queueFlags : SUBSET {"VK_QUEUE_GRAPHICS_BIT", "VK_QUEUE_COMPUTE_BIT"},
     surfaceSupport : BOOLEAN]

QueueLists == UNION {[1..n -> QueueFamilies] : n \in 0..MaxQueues}

\* VkPhysicalDeviceLimits and VkPhysicalDeviceMemoryProperties, as far as
\* they are rated
NoLimits ==
    [maxColorAttachments |-> U32(0), maxDescriptorSetInputAttachments |-> U32(0),
     maxImageDimension2D |-> U32(0), maxImageArrayLayers |-> U32(0),
     maxViewports |-> U32(0), memoryHeapCount |-> U32(0)]

DesktopLimits ==
    [maxColorAttachments |-> U32(8), maxDescriptorSetInputAttachments |-> U32(8),
     maxImageDimension2D |-> U32(16384), maxImageArrayLayers |-> U32(2048),
     maxViewports |-> U32(16), memoryHeapCount |-> U32(2)]

MobileLimits ==
    [maxColorAttachments |-> U32(4), maxDescriptorSetInputAttachments |-> U32(4),
     maxImageDimension2D |-> U32(4096), maxImageArrayLayers |-> U32(256),
     maxViewports |-> U32(1), memoryHeapCount |-> U32(1)]

\* maxImageArrayLayers = 2^31: its share 10 * 2^31 is a multiple of 2^32
HugeLimits ==
    [maxColorAttachments |-> U32(0), maxDescriptorSetInputAttachments |-> U32(0),
     maxImageDimension2D |-> U32(0), maxImageArrayLayers |-> U32Limbs(32768, 0),
     maxViewports |-> U32(0), memoryHeapCount |-> U32(0)]

DeviceLimits == {NoLimits, DesktopLimits, MobileLimits, HugeLimits}

ExtensionLists ==
    { <<>>, <<"VK_KHR_maintenance1">>, <<VK_KHR_SWAPCHAIN_EXTENSION_NAME>>,
      <<"VK_KHR_maintenance1", VK_KHR_SWAPCHAIN_EXTENSION_NAME>> }

\* an adapter: everything the rating asks the driver about it
Adapters ==
    [limits : DeviceLimits,
     multiViewport : BOOLEAN,
     queues : QueueLists,
     extensions : ExtensionLists,
     presentModeCount : {0, 1},
     surfaceFormatCount : {0, 2}]

----------------------------------------------------------------------------
(* RatePhysicalDevice                                                      *)

\* mutant: maxViewports rated with the weight of the attachments
RateLimitsViewportWeight(physicalDevice) ==
    LET l  == physicalDevice.limits
        s1 == U32Add(U32(0), U32Mul(l.maxColorAttachments, 100))
        s2 == U32Add(s1, U32Mul(l.maxDescriptorSetInputAttachments, 100))
        s3 == U32Add(s2, U32Mul(l.maxImageDimension2D, 1000))
        s4 == U32Add(s3, U32Mul(l.maxImageArrayLayers, 10))
        s5 == U32Add(s4, U32Mul(l.maxViewports, 100))
        s6 == U32Add(s5, U32Mul(l.memoryHeapCount, 1000))
    IN  IF physicalDevice.multiViewport THEN U32Add(s6, U32(500)) ELSE s6

\* score += limit * weight, for the five limits and the heap count, and the
\* multi-viewport bonus
RateLimits(physicalDevice) ==
    LET l  == physicalDevice.limits
        s1 == U32Add(U32(0), U32Mul(l.maxColorAttachments, 100))
        s2 == U32Add(s1, U32Mul(l.maxDescriptorSetInputAttachments, 100))
        s3 == U32Add(s2, U32Mul(l.maxImageDimension2D, 1000))
        s4 == U32Add(s3, U32Mul(l.maxImageArrayLayers, 10))
        s5 == U32Add(s4, U32Mul(l.maxViewports, 500))
        s6 == U32Add(s5, U32Mul(l.memoryHeapCount, 1000))
    IN  IF physicalDevice.multiViewport THEN U32Add(s6, U32(500)) ELSE s6

\* the loop over the queue families: every family with the graphics bit
\* adds 100000, every family with the compute bit adds 50000
RECURSIVE RateQueues(_, _)
RateQueues(s, queues) ==
    IF queues = <<>> THEN s
    ELSE LET queue == Head(queues)
             g == IF "VK_QUEUE_GRAPHICS_BIT" \in queue.queueFlags
                  THEN U32Add(s, U32(100000)) ELSE s
             c == IF "VK_QUEUE_COMPUTE_BIT" \in queue.queueFlags
                  THEN U32Add(g, U32(50000)) ELSE g
         IN  RateQueues(c, Tail(queues))

\* the presentation loop: `i` when the loop is left (0-based), which is the
\* first family that supports the surface, or queues.size() when none does
PresentationLoopIndex(queues) ==
    IF \E k \in 1..Len(queues) : queues[k].surfaceSupport
    THEN (CHOOSE k \in 1..Len(queues) :
            /\ queues[k].surfaceSupport
            /\ \A j \in 1..(k - 1) : ~queues[j].surfaceSupport) - 1
    ELSE Len(queues)

\* `presentationSupported` when the loop is left: what the last call wrote,
\* or "uninitialized" when the loop body never ran
PresentationLoopFlag(queues) ==
    IF queues = <<>> THEN "uninitialized"
    ELSE IF \E k \in 1..Len(queues) : queues[k].surfaceSupport
         THEN "VK_TRUE" ELSE "VK_FALSE"

\* whether the check after the presentation loop reads the flag at all:
\* `i+1 == queues.size() && !presentationSupported` evaluates its right
\* operand only when the left one holds
PresentationReadsFlag(queues) == PresentationLoopIndex(queues) + 1 = Len(queues)

\* mutant: the check compares i, not i+1, with queues.size()
PresentationReadsUninitializedAtEnd(queues) ==
    /\ PresentationLoopIndex(queues) = Len(queues)
    /\ PresentationLoopFlag(queues) = "uninitialized"

\* whether the check after the presentation loop reads the flag while it
\* is uninitialized: `i+1 == queues.size() && !presentationSupported` reads
\* the flag only when its left operand holds
PresentationReadsUninitialized(queues) ==
    /\ PresentationLoopIndex(queues) + 1 = Len(queues)
    /\ PresentationLoopFlag(queues) = "uninitialized"

\* `i+1 == queues.size() && !presentationSupported`; a read of the
\* uninitialized flag yields `junk`
PresentationMissing(queues, junk) ==
    /\ PresentationLoopIndex(queues) + 1 = Len(queues)
    /\ IF PresentationLoopFlag(queues) = "uninitialized"
       THEN ~junk
       ELSE PresentationLoopFlag(queues) = "VK_FALSE"

\* mutant: the presentation bonus is the graphics bonus
RatePresentationGraphicsBonus(s, physicalDevice, surf, junk) ==
    IF surf # VK_NULL_HANDLE
    THEN IF PresentationMissing(physicalDevice.queues, junk)
         THEN U32(0)
         ELSE U32Add(s, U32(100000))
    ELSE s

\* if(surface != VK_NULL_HANDLE){ ... score = 0 or score += 110000 }
RatePresentation(s, physicalDevice, surf, junk) ==
    IF surf # VK_NULL_HANDLE
    THEN IF PresentationMissing(physicalDevice.queues, junk)
         THEN U32(0)
         ELSE U32Add(s, U32(110000))
    ELSE s

\* the strcmp loop over the device extension names
SwapchainExtensionAvailable(extensions) ==
    \E k \in 1..Len(extensions) : extensions[k] = VK_KHR_SWAPCHAIN_EXTENSION_NAME

\* mutant: a missing swapchain extension leaves the score as it is
RateSwapchainExtensionIgnored(s, physicalDevice) == s

\* if(!swapchainExtensionAvailable) score = 0
RateSwapchainExtension(s, physicalDevice) ==
    IF ~SwapchainExtensionAvailable(physicalDevice.extensions) THEN U32(0) ELSE s

\* mutant: the present-mode count is overwritten before it is tested
RateSurfaceSupportFormatsOnly(s, physicalDevice, surf) ==
    IF surf # VK_NULL_HANDLE
    THEN IF physicalDevice.surfaceFormatCount = 0 THEN U32(0) ELSE s
    ELSE s

\* mutant: the surface-format count is not tested
RateSurfaceSupportModesOnly(s, physicalDevice, surf) ==
    IF surf # VK_NULL_HANDLE
    THEN IF physicalDevice.presentModeCount = 0 THEN U32(0) ELSE s
    ELSE s

\* the present-mode count and the surface-format count, each zeroing the score
RateSurfaceSupport(s, physicalDevice, surf) ==
    IF surf # VK_NULL_HANDLE
    THEN LET m == IF physicalDevice.presentModeCount = 0 THEN U32(0) ELSE s
         IN  IF physicalDevice.surfaceFormatCount = 0 THEN U32(0) ELSE m
    ELSE s

\* mutant: the swapchain check made before the presentation bonus is added
RatePhysicalDeviceSwapchainFirst(physicalDevice, surf, junk) ==
    LET a == RateLimits(physicalDevice)
        b == RateQueues(a, physicalDevice.queues)
        c == RateSwapchainExtension(b, physicalDevice)
        d == RatePresentation(c, physicalDevice, surf, junk)
    IN  RateSurfaceSupport(d, physicalDevice, surf)

RatePhysicalDevice(physicalDevice, surf, junk) ==
    LET a == RateLimits(physicalDevice)
        b == RateQueues(a, physicalDevice.queues)
        c == RatePresentation(b, physicalDevice, surf, junk)
        d == RateSwapchainExtension(c, physicalDevice)
    IN  RateSurfaceSupport(d, physicalDevice, surf)

----------------------------------------------------------------------------
(* SelectBestPhysicalDevice                                                *)

\* the adapters the selection is run on
SelectQueueLists ==
    { <<>>,
      <<[queueFlags |-> {"VK_QUEUE_GRAPHICS_BIT", "VK_QUEUE_COMPUTE_BIT"}, surfaceSupport |-> TRUE]>>,
      <<[queueFlags |-> {"VK_QUEUE_GRAPHICS_BIT"}, surfaceSupport |-> FALSE]>>,
      <<[queueFlags |-> {"VK_QUEUE_COMPUTE_BIT"}, surfaceSupport |-> TRUE]>> }

SelectAdapters ==
    [limits : {NoLimits, DesktopLimits},
     multiViewport : {FALSE},
     queues : SelectQueueLists,
     extensions : {<<>>, <<VK_KHR_SWAPCHAIN_EXTENSION_NAME>>},
     presentModeCount : {0, 1},
     surfaceFormatCount : {2}]

DeviceLists == UNION {[1..n -> SelectAdapters] : n \in 0..MaxDevices}

\* VkPhysicalDevice selectedPhysicalDevice; declared without initializer
Uninitialized == [assigned |-> FALSE]
Assigned(k) == [assigned |-> TRUE, device |-> k]

\* the values a read of a VkPhysicalDevice local can yield: the device it
\* was assigned, or anything (a device of the list, or no device, 0) when
\* it never was
ReadHandle(h, n) == IF h.assigned THEN {h.device} ELSE 0..n

\* CHECK_VULKAN_HANDLE(instance), then EnumeratePhysicalDevices with its
\* ASSERT(count > 0), then the locals of the scan
SelectEnumerate ==
    /\ pc = "start"
    /\ IF instance = VK_NULL_HANDLE \/ Len(physicalDeviceList) = 0
       THEN /\ pc' = "exit"
            /\ UNCHANGED <<i, score, selectedPhysicalDevice>>
       ELSE /\ pc' = "loop"
            /\ i' = 1
            /\ score' = U32(0)
            /\ selectedPhysicalDevice' = Uninitialized
    /\ UNCHANGED <<surface, instance, physicalDeviceList, returned,
                   rateVars, formatVars, modeVars, extentVars, baseVars, wrapVars, queryVars, infoVars>>

\* mutant: the comparison turned round
KeepsNewScoreReversed(best, newScore) == U32Less(newScore, best)

\* mutant: <= for <
KeepsNewScoreOrEqual(best, newScore) == ~U32Less(newScore, best)

\* if(score < newScore)
KeepsNewScore(best, newScore) == U32Less(best, newScore)

\* one iteration of the range-for: rate the device, keep it when
\* score < newScore
SelectRate ==
    /\ pc = "loop"
    /\ i <= Len(physicalDeviceList)
    /\ \E junk \in BOOLEAN :
         LET newScore == RatePhysicalDevice(physicalDeviceList[i], surface, junk)
         IN  IF KeepsNewScore(score, newScore)
             THEN score' = newScore /\ selectedPhysicalDevice' = Assigned(i)
             ELSE UNCHANGED <<score, selectedPhysicalDevice>>
    /\ i' = i + 1
    /\ UNCHANGED <<surface, instance, physicalDeviceList, pc, returned,
                   rateVars, formatVars, modeVars, extentVars, baseVars, wrapVars, queryVars, infoVars>>

\* mutant: the score is not asserted before selectedPhysicalDevice is read
SelectReturnUnchecked ==
    /\ pc = "loop"
    /\ i > Len(physicalDeviceList)
    /\ pc' = "returned"
    /\ \E h \in ReadHandle(selectedPhysicalDevice, Len(physicalDeviceList)) :
         returned' = <<h>>
    /\ UNCHANGED <<surface, instance, physicalDeviceList, i, score, selectedPhysicalDevice,
                   rateVars, formatVars, modeVars, extentVars, baseVars, wrapVars, queryVars, infoVars>>

\* ASSERT(score != 0, ...), then the read of selectedPhysicalDevice for the
\* log line and the return
SelectReturn ==
    /\ pc = "loop"
    /\ i > Len(physicalDeviceList)
    /\ IF score = U32(0)
       THEN pc' = "exit" /\ UNCHANGED returned
       ELSE /\ pc' = "returned"
            /\ \E h \in ReadHandle(selectedPhysicalDevice, Len(physicalDeviceList)) :
                 returned' = <<h>>
    /\ UNCHANGED <<surface, instance, physicalDeviceList, i, score, selectedPhysicalDevice,
                   rateVars, formatVars, modeVars, extentVars, baseVars, wrapVars, queryVars, infoVars>>

----------------------------------------------------------------------------
(* SelectSwapchainSurfaceFormat                                            *)

VK_FORMAT_B8G8R8A8_SRGB == "VK_FORMAT_B8G8R8A8_SRGB"
VK_COLOR_SPACE_SRGB_NONLINEAR_KHR == "VK_COLOR_SPACE_SRGB_NONLINEAR_KHR"

\* VkSurfaceFormatKHR
SurfaceFormats ==
    [format : {VK_FORMAT_B8G8R8A8_SRGB, "VK_FORMAT_R8G8B8A8_UNORM"},
     colorSpace : {VK_COLOR_SPACE_SRGB_NONLINEAR_KHR, "VK_COLOR_SPACE_EXTENDED_SRGB_LINEAR_EXT"}]

FormatLists == UNION {[1..n -> SurfaceFormats] : n \in 0..MaxFormats}

\* mutant: || for && in the test of an entry
SelectSwapchainSurfaceFormatEither(fs) ==
    LET desired == { k \in 1..Len(fs) :
                       \/ fs[k].format = VK_FORMAT_B8G8R8A8_SRGB
                       \/ fs[k].colorSpace = VK_COLOR_SPACE_SRGB_NONLINEAR_KHR }
    IN  IF desired # {}
        THEN { [pc |-> "returned", format |-> fs[CHOOSE k \in desired : \A j \in desired : k <= j]] }
        ELSE IF fs # <<>>
             THEN { [pc |-> "returned", format |-> fs[1]] }
             ELSE { [pc |-> "crashed"] } \cup { [pc |-> "returned", format |-> f] : f \in SurfaceFormats }

\* mutant: the fallback is the last entry, not the first
SelectSwapchainSurfaceFormatLast(fs) ==
    LET desired == { k \in 1..Len(fs) :
                       /\ fs[k].format = VK_FORMAT_B8G8R8A8_SRGB
                       /\ fs[k].colorSpace = VK_COLOR_SPACE_SRGB_NONLINEAR_KHR }
    IN  IF desired # {}
        THEN { [pc |-> "returned", format |-> fs[CHOOSE k \in desired : \A j \in desired : k <= j]] }
        ELSE IF fs # <<>>
             THEN { [pc |-> "returned", format |-> fs[Len(fs)]] }
             ELSE { [pc |-> "crashed"] } \cup { [pc |-> "returned", format |-> f] : f \in SurfaceFormats }

\* the outcomes of the call: the first entry that has both the format and
\* the colour space, else formats[0]; formats[0] of an empty vector is out
\* of range, and the call then yields any value or crashes
SelectSwapchainSurfaceFormat(fs) ==
    LET desired == { k \in 1..Len(fs) :
                       /\ fs[k].format = VK_FORMAT_B8G8R8A8_SRGB
                       /\ fs[k].colorSpace = VK_COLOR_SPACE_SRGB_NONLINEAR_KHR }
    IN  IF desired # {}
        THEN { [pc |-> "returned", format |-> fs[CHOOSE k \in desired : \A j \in desired : k <= j]] }
        ELSE IF fs # <<>>
             THEN { [pc |-> "returned", format |-> fs[1]] }
             ELSE { [pc |-> "crashed"] } \cup { [pc |-> "returned", format |-> f] : f \in SurfaceFormats }

CallSelectSwapchainSurfaceFormat ==
    /\ selectedFormat.pc = "call"
    /\ \E out \in SelectSwapchainSurfaceFormat(formats) : selectedFormat' = out
    /\ UNCHANGED <<surface, formats, rateVars, selectVars, modeVars, extentVars, baseVars, wrapVars, queryVars, infoVars>>

----------------------------------------------------------------------------
(* SelectSwapchainSurfacePresentMode                                       *)

VK_PRESENT_MODE_MAILBOX_KHR == "VK_PRESENT_MODE_MAILBOX_KHR"
VK_PRESENT_MODE_FIFO_KHR == "VK_PRESENT_MODE_FIFO_KHR"

\* VkPresentModeKHR
PresentModes ==
    { "VK_PRESENT_MODE_IMMEDIATE_KHR", VK_PRESENT_MODE_MAILBOX_KHR,
      VK_PRESENT_MODE_FIFO_KHR, "VK_PRESENT_MODE_FIFO_RELAXED_KHR" }

PresentModeLists == UNION {[1..n -> PresentModes] : n \in 0..MaxModes}

\* mutant: the scan stops at the first of MAILBOX and FIFO
RECURSIVE SelectSwapchainSurfacePresentModeFirstOfTwo(_)
SelectSwapchainSurfacePresentModeFirstOfTwo(modes) ==
    IF modes = <<>> THEN VK_PRESENT_MODE_FIFO_KHR
    ELSE IF Head(modes) \in {VK_PRESENT_MODE_MAILBOX_KHR, VK_PRESENT_MODE_FIFO_KHR} THEN Head(modes)
    ELSE SelectSwapchainSurfacePresentModeFirstOfTwo(Tail(modes))

\* the scan for MAILBOX, and the FIFO default
RECURSIVE SelectSwapchainSurfacePresentMode(_)
SelectSwapchainSurfacePresentMode(modes) ==
    IF modes = <<>> THEN VK_PRESENT_MODE_FIFO_KHR
    ELSE IF Head(modes) = VK_PRESENT_MODE_MAILBOX_KHR THEN Head(modes)
    ELSE SelectSwapchainSurfacePresentMode(Tail(modes))

CallSelectSwapchainSurfacePresentMode ==
    /\ selectedPresentMode.pc = "call"
    /\ selectedPresentMode' =
         [pc |-> "returned", mode |-> SelectSwapchainSurfacePresentMode(presentModes)]
    /\ UNCHANGED <<surface, presentModes, rateVars, selectVars, formatVars, extentVars, baseVars, wrapVars, queryVars, infoVars>>

----------------------------------------------------------------------------
(* SelectSwapchainSurfaceImageExtent                                       *)

Extent(w, h) == [width |-> U32(w), height |-> U32(h)]

\* the "undefined" current extent of the Vulkan specification
UndefinedExtent == [width |-> UINT32_MAX, height |-> UINT32_MAX]

CurrentExtents ==
    { UndefinedExtent, Extent(800, 600), Extent(0, 0), Extent(5000, 5000),
      [width |-> U32(800), height |-> UINT32_MAX],
      [width |-> UINT32_MAX, height |-> U32(600)] }

\* VkSurfaceCapabilitiesKHR, as far as the extent selection reads it
SurfaceCapabilities ==
    [currentExtent : CurrentExtents,
     minImageExtent : {Extent(1, 1), Extent(800, 600), Extent(2000, 2000)},
     maxImageExtent : {Extent(1024, 1024), Extent(4096, 4096), Extent(640, 480)}]

\* int w, h written by SDL_GetWindowSize
WindowSizes == { [w |-> 1920, h |-> 1080], [w |-> 800, h |-> 600],
                 [w |-> 0, h |-> 0], [w |-> 640, h |-> 2160] }

\* mutant: a defined current extent is clamped like the window size
SelectSwapchainSurfaceImageExtentClamped(win, caps) ==
    LET extent == IF caps.currentExtent.width # UINT32_MAX
                  THEN caps.currentExtent
                  ELSE [width |-> U32(win.w), height |-> U32(win.h)]
    IN  [width  |-> U32Max(caps.minImageExtent.width,
                           U32Min(caps.maxImageExtent.width, extent.width)),
         height |-> U32Max(caps.minImageExtent.height,
                           U32Min(caps.maxImageExtent.height, extent.height))]

\* mutant: the window size is capped by the maximum extent only
SelectSwapchainSurfaceImageExtentCapped(win, caps) ==
    IF caps.currentExtent.width # UINT32_MAX
    THEN caps.currentExtent
    ELSE LET extent == [width |-> U32(win.w), height |-> U32(win.h)]
         IN  [width  |-> U32Min(caps.maxImageExtent.width, extent.width),
              height |-> U32Min(caps.maxImageExtent.height, extent.height)]

SelectSwapchainSurfaceImageExtent(win, caps) ==
    IF caps.currentExtent.width # UINT32_MAX
    THEN caps.currentExtent
    ELSE LET extent == [width |-> U32(win.w), height |-> U32(win.h)]
         IN  [width  |-> U32Max(caps.minImageExtent.width,
                                U32Min(caps.maxImageExtent.width, extent.width)),
              height |-> U32Max(caps.minImageExtent.height,
                                U32Min(caps.maxImageExtent.height, extent.height))]

CallSelectSwapchainSurfaceImageExtent ==
    /\ selectedExtent.pc = "call"
    /\ selectedExtent' =
         [pc |-> "returned", extent |-> SelectSwapchainSurfaceImageExtent(window, capabilities)]
    /\ UNCHANGED <<surface, capabilities, window, rateVars, selectVars, formatVars, modeVars,
                   baseVars, wrapVars, queryVars, infoVars>>

----------------------------------------------------------------------------
(* Core: CHECK_VULKAN_HANDLE and CheckAvailability.                        *)

\* CHECK_VULKAN_HANDLE(VulkanHandle): the condition its ASSERT tests
CHECK_VULKAN_HANDLE(VulkanHandle) == VulkanHandle # VK_NULL_HANDLE

\* CheckValidHandle(handle): return handle != VK_NULL_HANDLE
CheckValidHandle(handle) == handle # VK_NULL_HANDLE

\* the strcmp loop over a list of names
CheckAvailability(container, object) ==
    \E k \in 1..Len(container) : container[k] = object

VK_SUCCESS == "VK_SUCCESS"

\* VkResult, as far as the wrappers tell the values apart
VkResults == {VK_SUCCESS, "VK_INCOMPLETE", "VK_ERROR_OUT_OF_HOST_MEMORY"}

----------------------------------------------------------------------------
(* The host of a VulkanBase object.                                        *)

VK_LAYER_KHRONOS_VALIDATION_NAME == "VK_LAYER_KHRONOS_validation"
VK_LAYER_LUNARG_API_DUMP_NAME == "VK_LAYER_LUNARG_api_dump"

\* the names the application asks for
InstanceExtensionNames == {"VK_KHR_surface", "VK_EXT_debug_utils", "VK_KHR_display"}
LayerNames == {VK_LAYER_KHRONOS_VALIDATION_NAME, VK_LAYER_LUNARG_API_DUMP_NAME}
DeviceExtensionNames == {VK_KHR_SWAPCHAIN_EXTENSION_NAME, "VK_KHR_maintenance1"}

\* the adapters of the hosts: one that has everything; one without a
\* graphics family; one whose only family cannot present; one without the
\* swapchain extension; one that reports no surface format; one that
\* reports no present mode
FullAdapter ==
    [limits |-> DesktopLimits, multiViewport |-> TRUE,
     queues |-> <<[queueFlags |-> {"VK_QUEUE_COMPUTE_BIT"}, surfaceSupport |-> FALSE],
                  [queueFlags |-> {"VK_QUEUE_GRAPHICS_BIT", "VK_QUEUE_COMPUTE_BIT"}, surfaceSupport |-> TRUE]>>,
     extensions |-> <<"VK_KHR_maintenance1", VK_KHR_SWAPCHAIN_EXTENSION_NAME>>,
     presentModeCount |-> 1, surfaceFormatCount |-> 2]

ComputeAdapter ==
    [limits |-> MobileLimits, multiViewport |-> FALSE,
     queues |-> <<[queueFlags |-> {"VK_QUEUE_COMPUTE_BIT"}, surfaceSupport |-> TRUE]>>,
     extensions |-> <<VK_KHR_SWAPCHAIN_EXTENSION_NAME>>,
     presentModeCount |-> 1, surfaceFormatCount |-> 2]

OffscreenAdapter ==
    [limits |-> MobileLimits, multiViewport |-> FALSE,
     queues |-> <<[queueFlags |-> {"VK_QUEUE_GRAPHICS_BIT"}, surfaceSupport |-> FALSE]>>,
     extensions |-> <<VK_KHR_SWAPCHAIN_EXTENSION_NAME>>,
     presentModeCount |-> 1, surfaceFormatCount |-> 2]

LegacyAdapter ==
    [limits |-> DesktopLimits, multiViewport |-> FALSE,
     queues |-> <<[queueFlags |-> {"VK_QUEUE_GRAPHICS_BIT"}, surfaceSupport |-> TRUE]>>,
     extensions |-> <<"VK_KHR_maintenance1">>,
     presentModeCount |-> 1, surfaceFormatCount |-> 2]

FormatlessAdapter ==
    [limits |-> MobileLimits, multiViewport |-> FALSE,
     queues |-> <<[queueFlags |-> {"VK_QUEUE_GRAPHICS_BIT"}, surfaceSupport |-> TRUE]>>,
     extensions |-> <<VK_KHR_SWAPCHAIN_EXTENSION_NAME>>,
     presentModeCount |-> 1, surfaceFormatCount |-> 0]

ModelessAdapter ==
    [limits |-> MobileLimits, multiViewport |-> FALSE,
     queues |-> <<[queueFlags |-> {"VK_QUEUE_GRAPHICS_BIT"}, surfaceSupport |-> TRUE]>>,
     extensions |-> <<VK_KHR_SWAPCHAIN_EXTENSION_NAME>>,
     presentModeCount |-> 0, surfaceFormatCount |-> 2]

BaseAdapters ==
    {FullAdapter, ComputeAdapter, OffscreenAdapter, LegacyAdapter, FormatlessAdapter,
     ModelessAdapter}

\* what vkEnumeratePhysicalDevices yields on the hosts
BaseDeviceLists ==
    {<<>>} \cup { <<a>> : a \in BaseAdapters }
           \cup { <<LegacyAdapter, FullAdapter>>, <<ComputeAdapter, FullAdapter>>,
                  <<FormatlessAdapter, ComputeAdapter>> }

\* what the driver reports to a VulkanBase object
Hosts ==
    [instanceExtensions : { <<"VK_KHR_surface", "VK_EXT_debug_utils">> },
     instanceLayers : { <<VK_LAYER_KHRONOS_VALIDATION_NAME>> },
     physicalDevices : BaseDeviceLists]

\* the VkPhysicalDevice handle of the k-th adapter, and the adapter of a handle
PhysicalDeviceHandle(k) == "physicalDevice" \o ToString(k)

PhysicalDeviceOf(handle) ==
    host.physicalDevices[CHOOSE k \in 1..Len(host.physicalDevices) :
                            PhysicalDeviceHandle(k) = handle]

----------------------------------------------------------------------------
(* Vulkan: the queries of the queue families.  An std::optional<uint32> is *)
(* <<>> or <<index>>, the index counted from 0.  Every call of             *)
(* vkGetPhysicalDeviceSurfaceSupportKHR succeeds and writes its flag.      *)

\* for(uint32 i = 0; i < queueFamilyProperties.size(); i++)
\*     if(queueFamilyProperties[i].queueFlags & flag) queueIdx = i;
\* from the family n on (`i`, counted from 0); queueIdx an std::optional<uint32>
RECURSIVE QueueFamilyIndexLoop(_, _, _, _)
QueueFamilyIndexLoop(queueFamilyProperties, flag, n, queueIdx) ==
    IF ~(n < Len(queueFamilyProperties)) THEN queueIdx
    ELSE QueueFamilyIndexLoop(queueFamilyProperties, flag, n + 1,
             IF flag \in queueFamilyProperties[n + 1].queueFlags THEN <<n>> ELSE queueIdx)

\* mutant: the scan is left at the first family that has the flag
RECURSIVE GetPhysicalDeviceQueueFamilyIndexFirst(_, _)
GetPhysicalDeviceQueueFamilyIndexFirst(queueFamilyProperties, flag) ==
    IF queueFamilyProperties = <<>> THEN <<>>
    ELSE IF flag \in Head(queueFamilyProperties).queueFlags THEN <<0>>
    ELSE LET rest == GetPhysicalDeviceQueueFamilyIndexFirst(Tail(queueFamilyProperties), flag)
         IN  IF rest = <<>> THEN <<>> ELSE <<rest[1] + 1>>

\* std::optional<uint32> queueIdx; the loop; return queueIdx (by list, and
\* by handle after GetPhysicalDeviceQueueFamilyProperties)
GetPhysicalDeviceQueueFamilyIndex(queueFamilyProperties, flag) ==
    QueueFamilyIndexLoop(queueFamilyProperties, flag, 0, <<>>)

\* for(uint i = 0; i < queues.size(); i++){ vkGetPhysicalDeviceSurfaceSupportKHR(
\*     physicalDevice, i, surface, &presentationSupported);
\*     if(presentationSupported){ presentationQueueIdx = i; break; } }
\* from the family n on; the native call writes what the family supports
RECURSIVE SurfaceSupportQueueIndexLoop(_, _, _)
SurfaceSupportQueueIndexLoop(queues, n, presentationQueueIdx) ==
    IF ~(n < Len(queues)) THEN presentationQueueIdx
    ELSE LET presentationSupported == queues[n + 1].surfaceSupport
         IN  IF presentationSupported THEN <<n>>
             ELSE SurfaceSupportQueueIndexLoop(queues, n + 1, presentationQueueIdx)

\* mutant: no break, the last family that supports the surface is kept
GetPhysicalDeviceSurfaceSupportQueueIndexLast(queues) ==
    LET found == { k \in 1..Len(queues) : queues[k].surfaceSupport }
    IN  IF found = {} THEN <<>>
        ELSE <<(CHOOSE k \in found : \A j \in found : j <= k) - 1>>

\* std::optional<uint32> presentationQueueIdx; the loop; return it
GetPhysicalDeviceSurfaceSupportQueueIndex(queues) ==
    SurfaceSupportQueueIndexLoop(queues, 0, <<>>)

\* Vulkan::Tools (old layout): the same two scans with int queueIdx = -1
RECURSIVE ToolsQueueFamilyIndexLoop(_, _, _, _)
ToolsQueueFamilyIndexLoop(queueFamilyProperties, flag, n, queueIdx) ==
    IF ~(n < Len(queueFamilyProperties)) THEN queueIdx
    ELSE ToolsQueueFamilyIndexLoop(queueFamilyProperties, flag, n + 1,
             IF flag \in queueFamilyProperties[n + 1].queueFlags THEN n ELSE queueIdx)

ToolsGetPhysicalDeviceQueueFamilyIndex(queueFamilyProperties, flag) ==
    ToolsQueueFamilyIndexLoop(queueFamilyProperties, flag, 0, -1)

RECURSIVE ToolsSurfaceSupportQueueIndexLoop(_, _, _)
ToolsSurfaceSupportQueueIndexLoop(queues, n, presentationQueueIdx) ==
    IF ~(n < Len(queues)) THEN presentationQueueIdx
    ELSE LET presentationSupported == queues[n + 1].surfaceSupport
         IN  IF presentationSupported THEN n
             ELSE ToolsSurfaceSupportQueueIndexLoop(queues, n + 1, presentationQueueIdx)

ToolsGetPhysicalDeviceSurfaceSupportQueueIndex(queues) ==
    ToolsSurfaceSupportQueueIndexLoop(queues, 0, -1)

\* the scan of SelectBestPhysicalDevice from the k-th device on, as a
\* function: the locals `score` and `selectedPhysicalDevice` at its end
RECURSIVE SelectBestPhysicalDevice(_, _, _, _, _)
SelectBestPhysicalDevice(physicalDevices, surf, k, best, selected) ==
    IF k > Len(physicalDevices)
    THEN [score |-> best, selectedPhysicalDevice |-> selected]
    ELSE LET newScore == RatePhysicalDevice(physicalDevices[k], surf, TRUE)
         IN  IF KeepsNewScore(best, newScore)
             THEN SelectBestPhysicalDevice(physicalDevices, surf, k + 1, newScore, Assigned(k))
             ELSE SelectBestPhysicalDevice(physicalDevices, surf, k + 1, best, selected)

\* the list vkGetPhysicalDeviceSurfaceFormatsKHR yields for an adapter
SurfaceFormatsOf(physicalDevice) ==
    [k \in 1..physicalDevice.surfaceFormatCount |->
        [format |-> VK_FORMAT_B8G8R8A8_SRGB, colorSpace |-> VK_COLOR_SPACE_SRGB_NONLINEAR_KHR]]

----------------------------------------------------------------------------
(* Init::SwapchainCreateInfo(physicalDevice, surface, window), called with *)
(* valid handles of the device and the surface.                            *)

MaxImages == 3

\* minImageCount and maxImageCount of VkSurfaceCapabilitiesKHR (uint32)
ImageCounts == { U32(n) : n \in 0..MaxImages } \cup {UINT32_MAX}

\* VkSurfaceCapabilitiesKHR, as far as SwapchainCreateInfo reads it
InfoCapabilities ==
    [currentExtent : {UndefinedExtent, Extent(800, 600)},
     minImageExtent : {Extent(1, 1)},
     maxImageExtent : {Extent(1024, 1024)},
     minImageCount : ImageCounts,
     maxImageCount : ImageCounts]

\* the list vkGetPhysicalDeviceSurfacePresentModesKHR yields for an adapter
SurfacePresentModesOf(physicalDevice) ==
    [k \in 1..physicalDevice.presentModeCount |-> VK_PRESENT_MODE_FIFO_KHR]

\* uint32 imageCount = surfaceCapabilities.minImageCount + 1;
\* if(surfaceCapabilities.maxImageCount > 0 && imageCount > surfaceCapabilities.maxImageCount)
\*     imageCount = surfaceCapabilities.maxImageCount;
SwapchainImageCount(surfaceCapabilities) ==
    LET imageCount == U32Add(surfaceCapabilities.minImageCount, U32(1))
    IN  IF /\ U32Less(U32(0), surfaceCapabilities.maxImageCount)
           /\ U32Less(surfaceCapabilities.maxImageCount, imageCount)
        THEN surfaceCapabilities.maxImageCount
        ELSE imageCount

\* the outcomes of the call for an adapter, the ints that SDL_GetWindowSize
\* left in w and h, and the capabilities of the surface: the create info,
\* or a crash in formats[0] of an empty list, or std::terminate when
\* value() of an empty queue index throws inside this noexcept function
SwapchainCreateInfo(physicalDevice, win, surfaceCapabilities) ==
    LET surfacePresentMode ==
            SelectSwapchainSurfacePresentMode(SurfacePresentModesOf(physicalDevice))
        swapchainImageExtent == SelectSwapchainSurfaceImageExtent(win, surfaceCapabilities)
        imageCount == SwapchainImageCount(surfaceCapabilities)
        graphicsQueueIdx ==
            GetPhysicalDeviceQueueFamilyIndex(physicalDevice.queues, "VK_QUEUE_GRAPHICS_BIT")
        presentQueueIdx == GetPhysicalDeviceSurfaceSupportQueueIndex(physicalDevice.queues)
    IN  { IF surfaceFormat.pc = "crashed"
          THEN [pc |-> "crashed"]
          ELSE IF graphicsQueueIdx = <<>> \/ presentQueueIdx = <<>>
          THEN [pc |-> "terminate"]
          ELSE [pc |-> "returned",
                presentMode |-> surfacePresentMode,
                imageFormat |-> surfaceFormat.format.format,
                imageColorSpace |-> surfaceFormat.format.colorSpace,
                imageExtent |-> swapchainImageExtent,
                minImageCount |-> imageCount,
                imageSharingMode |->
                    IF graphicsQueueIdx[1] # presentQueueIdx[1]
                    THEN "VK_SHARING_MODE_CONCURRENT" ELSE "VK_SHARING_MODE_EXCLUSIVE"]
          : surfaceFormat \in SelectSwapchainSurfaceFormat(SurfaceFormatsOf(physicalDevice)) }

\* SpecInfo: the call
CallSwapchainCreateInfo ==
    /\ info.pc = "call"
    /\ \E out \in SwapchainCreateInfo(info.physicalDevice, info.window, info.surfaceCapabilities) :
         info' = [pc |-> "done", physicalDevice |-> info.physicalDevice,
                  window |-> info.window, surfaceCapabilities |-> info.surfaceCapabilities,
                  swapchainCreateInfo |-> out]
    /\ UNCHANGED <<toolVars, baseVars, wrapVars, queryVars>>

----------------------------------------------------------------------------
(* VulkanBase                                                              *)

\* the members after the constructor
VulkanBase(h) ==
    [availableInstanceExtensions |-> h.instanceExtensions,
     instanceExtensions |-> <<>>,
     availableInstanceLayers |-> h.instanceLayers,
     instanceLayers |-> <<>>,
     instance |-> VK_NULL_HANDLE,
     window |-> "nullptr",
     surface |-> VK_NULL_HANDLE,
     physicalDevice |-> VK_NULL_HANDLE,
     availableDeviceExtensions |-> <<>>,
     deviceExtensions |-> <<>>,
     graphicsIdx |-> <<>>,
     presentIdx |-> <<>>,
     device |-> VK_NULL_HANDLE,
     swapchain |-> VK_NULL_HANDLE]

\* how a call ended: it returned, or the process left through the exit(-1)
\* of ASSERT ("exit"), through std::terminate ("terminate"), through an
\* std::bad_optional_access thrown to the caller ("bad_optional_access"),
\* or it crashed; forwardedNull tells whether a native function was handed
\* VK_NULL_HANDLE
Returns(op, fwd) ==
    [op |-> op, name |-> "", result |-> FALSE, outcome |-> "returned", forwardedNull |-> fwd]

ReturnsBool(op, name, result) ==
    [op |-> op, name |-> name, result |-> result, outcome |-> "returned", forwardedNull |-> FALSE]

Ends(op, how, fwd) ==
    [op |-> op, name |-> "", result |-> FALSE, outcome |-> how, forwardedNull |-> fwd]

\* the process is still running
Alive == call.outcome = "returned"

\* mutant: the name is pushed again when it is enabled already
EnableInstanceExtensionAgain ==
    /\ Alive
    /\ \E extensionName \in InstanceExtensionNames :
         IF CheckAvailability(base.availableInstanceExtensions, extensionName)
         THEN /\ Len(base.instanceExtensions) < MaxNames
              /\ base' = [base EXCEPT !.instanceExtensions = Append(@, extensionName)]
              /\ call' = ReturnsBool("EnableInstanceExtension", extensionName, TRUE)
         ELSE /\ call' = ReturnsBool("EnableInstanceExtension", extensionName, FALSE)
              /\ UNCHANGED base
    /\ UNCHANGED <<host, toolVars, wrapVars, queryVars, infoVars>>

EnableInstanceExtension ==
    /\ Alive
    /\ \E extensionName \in InstanceExtensionNames :
         IF CheckAvailability(base.availableInstanceExtensions, extensionName)
         THEN /\ IF CheckAvailability(base.instanceExtensions, extensionName) = FALSE
                 THEN base' = [base EXCEPT !.instanceExtensions = Append(@, extensionName)]
                 ELSE UNCHANGED base
              /\ call' = ReturnsBool("EnableInstanceExtension", extensionName, TRUE)
         ELSE /\ call' = ReturnsBool("EnableInstanceExtension", extensionName, FALSE)
              /\ UNCHANGED base
    /\ UNCHANGED <<host, toolVars, wrapVars, queryVars, infoVars>>

\* the name is looked up in instanceLayers and pushed onto
\* instanceExtensions; the list grows with every call, which the model
\* stops at MaxNames entries
EnableInstanceLayer ==
    /\ Alive
    /\ \E layerName \in LayerNames :
         IF CheckAvailability(base.availableInstanceLayers, layerName)
         THEN /\ IF CheckAvailability(base.instanceLayers, layerName) = FALSE
                 THEN /\ Len(base.instanceExtensions) < MaxNames
                      /\ base' = [base EXCEPT !.instanceExtensions = Append(@, layerName)]
                 ELSE UNCHANGED base
              /\ call' = ReturnsBool("EnableInstanceLayer", layerName, TRUE)
         ELSE /\ call' = ReturnsBool("EnableInstanceLayer", layerName, FALSE)
              /\ UNCHANGED base
    /\ UNCHANGED <<host, toolVars, wrapVars, queryVars, infoVars>>

\* Vulkan::CreateInstance: ASSERT(resInstanceCreation == VK_SUCCESS)
CreateInstance ==
    /\ Alive
    /\ \E res \in VkResults :
         IF res # VK_SUCCESS
         THEN /\ call' = Ends("CreateInstance", "exit", FALSE)
              /\ UNCHANGED base
         ELSE /\ base' = [base EXCEPT !.instance = "instance"]
              /\ call' = Returns("CreateInstance", FALSE)
    /\ UNCHANGED <<host, toolVars, wrapVars, queryVars, infoVars>>

\* Vulkan::CreateSurface(instance, window): CHECK_VULKAN_HANDLE(instance),
\* ASSERT(window != nullptr), SDL_Vulkan_CreateSurface and the ASSERT on
\* what it returns; the member `window` is not written (the parameter
\* hides it); the call record keeps the window of the call
CreateSurface ==
    /\ Alive
    /\ \E w \in {"nullptr", "window"}, resSurfaceCreated \in BOOLEAN :
         IF ~CHECK_VULKAN_HANDLE(base.instance) \/ w = "nullptr"
         THEN /\ call' = Ends("CreateSurface", "exit", FALSE)
              /\ UNCHANGED base
         ELSE IF ~resSurfaceCreated
              THEN /\ call' = Ends("CreateSurface", "exit", base.instance = VK_NULL_HANDLE)
                   /\ UNCHANGED base
              ELSE /\ base' = [base EXCEPT !.surface = "surface"]
                   /\ call' = Returns("CreateSurface", base.instance = VK_NULL_HANDLE)
                              @@ [window |-> w]
    /\ UNCHANGED <<host, toolVars, wrapVars, queryVars, infoVars>>

\* SelectBestPhysicalDevice(instance, surface): CHECK_VULKAN_HANDLE(instance),
\* the ASSERT(count > 0) of EnumeratePhysicalDevices, the scan and
\* ASSERT(score != 0); then EnumerateDeviceExtensionNames(physicalDevice)
SelectPhysicalDevice ==
    /\ Alive
    /\ IF ~CHECK_VULKAN_HANDLE(base.instance)
       THEN /\ call' = Ends("SelectPhysicalDevice", "exit", FALSE)
            /\ UNCHANGED base
       ELSE LET fwd  == base.instance = VK_NULL_HANDLE
                scan == SelectBestPhysicalDevice(host.physicalDevices, base.surface,
                                                 1, U32(0), Uninitialized)
            IN  IF Len(host.physicalDevices) = 0 \/ scan.score = U32(0)
                THEN /\ call' = Ends("SelectPhysicalDevice", "exit", fwd)
                     /\ UNCHANGED base
                ELSE /\ base' = [base EXCEPT
                            !.physicalDevice =
                                PhysicalDeviceHandle(scan.selectedPhysicalDevice.device),
                            !.availableDeviceExtensions =
                                host.physicalDevices[scan.selectedPhysicalDevice.device].extensions]
                     /\ call' = Returns("SelectPhysicalDevice", fwd)
    /\ UNCHANGED <<host, toolVars, wrapVars, queryVars, infoVars>>

EnableDeviceExtension ==
    /\ Alive
    /\ \E extensionName \in DeviceExtensionNames :
         IF CheckAvailability(base.availableDeviceExtensions, extensionName)
         THEN /\ IF CheckAvailability(base.deviceExtensions, extensionName) = FALSE
                 THEN base' = [base EXCEPT !.deviceExtensions = Append(@, extensionName)]
                 ELSE UNCHANGED base
              /\ call' = ReturnsBool("EnableDeviceExtension", extensionName, TRUE)
         ELSE /\ call' = ReturnsBool("EnableDeviceExtension", extensionName, FALSE)
              /\ UNCHANGED base
    /\ UNCHANGED <<host, toolVars, wrapVars, queryVars, infoVars>>

\* VulkanBase::CreateDevice: the graphics index with its handle check and
\* ASSERT, the presentation index when there is a surface, the value() of
\* both indices, then Vulkan::CreateDevice with its handle check and its
\* ASSERT on the result; the queues are not kept in the model
CreateDevice ==
    /\ Alive
    /\ \E res \in VkResults :
         IF ~CHECK_VULKAN_HANDLE(base.physicalDevice)
         THEN /\ call' = Ends("CreateDevice", "exit", FALSE)
              /\ UNCHANGED base
         ELSE LET fwd == base.physicalDevice = VK_NULL_HANDLE
                  queues == PhysicalDeviceOf(base.physicalDevice).queues
                  graphicsIdx ==
                      GetPhysicalDeviceQueueFamilyIndex(queues, "VK_QUEUE_GRAPHICS_BIT")
                  presentIdx ==
                      IF base.surface # VK_NULL_HANDLE
                      THEN GetPhysicalDeviceSurfaceSupportQueueIndex(queues)
                      ELSE base.presentIdx
                  indices == [base EXCEPT !.graphicsIdx = graphicsIdx,
                                          !.presentIdx = presentIdx]
              IN  IF graphicsIdx = <<>>
                  THEN /\ call' = Ends("CreateDevice", "exit", fwd)
                       /\ base' = [base EXCEPT !.graphicsIdx = graphicsIdx]
                  ELSE IF base.surface # VK_NULL_HANDLE /\ presentIdx = <<>>
                  THEN /\ call' = Ends("CreateDevice", "exit", fwd)
                       /\ base' = indices
                  ELSE IF presentIdx = <<>>
                  THEN /\ call' = Ends("CreateDevice", "bad_optional_access", fwd)
                       /\ base' = indices
                  ELSE IF res # VK_SUCCESS
                  THEN /\ call' = Ends("CreateDevice", "exit", fwd)
                       /\ base' = indices
                  ELSE /\ call' = Returns("CreateDevice", fwd)
                       /\ base' = [indices EXCEPT !.device = "device"]
    /\ UNCHANGED <<host, toolVars, wrapVars, queryVars, infoVars>>

\* what the driver reports for the surface of the window, and the ints
\* that SDL_GetWindowSize leaves in w and h: the size of the window, or,
\* handed nullptr, whatever w and h held (the call fails and writes nothing)
BaseCapabilities ==
    { c \in InfoCapabilities : c.minImageCount = U32(2) /\ c.maxImageCount = U32(0) }
BaseWindowSize == [w |-> 800, h |-> 600]
BaseJunkSizes == { [w |-> 0, h |-> 0], [w |-> 1920, h |-> 1080] }

\* VulkanBase::CreateSwapchain: SwapchainCreateInfo(physicalDevice, surface,
\* window) with the handle checks of its queries, the format selection
\* (formats[0] of an empty list yields any value or crashes), the extent
\* selection for the member `window` and the value() of both queue indices
\* inside a noexcept function; then Vulkan::CreateSwapchain with its handle
\* check and its ASSERT on the result, and GetSwapchainImages.  The call
\* record keeps the window handed to the extent selection and the extent
\* of the create info; the members imageExtent and imageFormat and the
\* images are not kept in the model.
CreateSwapchain ==
    /\ Alive
    /\ IF ~CHECK_VULKAN_HANDLE(base.physicalDevice) \/ ~CHECK_VULKAN_HANDLE(base.surface)
       THEN /\ call' = Ends("CreateSwapchain", "exit", FALSE)
            /\ UNCHANGED base
       ELSE LET queried == base.physicalDevice = VK_NULL_HANDLE \/ base.surface = VK_NULL_HANDLE
                physicalDevice == PhysicalDeviceOf(base.physicalDevice)
                sizes == IF base.window = "nullptr" THEN BaseJunkSizes ELSE {BaseWindowSize}
                passed == [window |-> base.window]
            IN  \E swapchainCreateInfo \in
                      UNION { SwapchainCreateInfo(physicalDevice, win, surfaceCapabilities) :
                                win \in sizes, surfaceCapabilities \in BaseCapabilities } :
                  IF swapchainCreateInfo.pc = "crashed"
                  THEN /\ call' = Ends("CreateSwapchain", "crashed", queried)
                       /\ UNCHANGED base
                  ELSE IF swapchainCreateInfo.pc = "terminate"
                  THEN /\ call' = Ends("CreateSwapchain", "terminate", queried) @@ passed
                       /\ UNCHANGED base
                  ELSE IF ~CHECK_VULKAN_HANDLE(base.device)
                  THEN /\ call' = Ends("CreateSwapchain", "exit", queried) @@ passed
                       /\ UNCHANGED base
                  ELSE \E res \in VkResults :
                         IF res # VK_SUCCESS
                         THEN /\ call' = Ends("CreateSwapchain", "exit",
                                              queried \/ base.device = VK_NULL_HANDLE) @@ passed
                              /\ UNCHANGED base
                         ELSE /\ call' = Returns("CreateSwapchain",
                                                 queried \/ base.device = VK_NULL_HANDLE)
                                         @@ [window |-> base.window,
                                             imageExtent |-> swapchainCreateInfo.imageExtent]
                              /\ base' = [base EXCEPT !.swapchain = "swapchain"]
    /\ UNCHANGED <<host, toolVars, wrapVars, queryVars, infoVars>>

----------------------------------------------------------------------------
(* The wrappers of the native calls that return a VkResult, each run with  *)
(* valid handles.                                                          *)

\* wrappers of one native call whose result is tested by an ASSERT
CreateWrappers == {"CreateInstance", "CreateDevice", "CreateSwapchain", "CreateImageView"}

\* wrappers of the two calls of an enumeration (the count, then the
\* entries), and of the one call of the capabilities query: a result other
\* than VK_SUCCESS is logged
EnumerateWrappers ==
    {"EnumeratePhysicalDevices", "EnumerateDeviceExtensionNames",
     "GetPhysicalDeviceSurfacePresentModes", "GetPhysicalDeviceSurfaceFormats",
     "GetSwapchainImages"}

QueryWrappers == {"GetPhysicalDeviceSurfaceCapabilities"}

\* if(res != VK_SUCCESS) LOG(error, ...): the results that are logged
IsLogged(res) == res # VK_SUCCESS
Logged(results) == SelectSeq(results, IsLogged)

\* VkResult res = vkCreate...(...); ASSERT(res == VK_SUCCESS, ...); return
CallCreateWrapper ==
    /\ wrap.pc = "call"
    /\ wrap.fn \in CreateWrappers
    /\ \E res \in VkResults :
         wrap' = [pc |-> IF res = VK_SUCCESS THEN "returned" ELSE "exit",
                  fn |-> wrap.fn, results |-> <<res>>, logged |-> <<>>]
    /\ UNCHANGED <<toolVars, baseVars, queryVars, infoVars>>

\* the count call and the entries call, each followed by
\* if(res != VK_SUCCESS) LOG(error, ...); `count` is whatever the first call
\* left in it; EnumeratePhysicalDevices has ASSERT(count > 0) in between
CallEnumerateWrapper ==
    /\ wrap.pc = "call"
    /\ wrap.fn \in EnumerateWrappers
    /\ \E res1 \in VkResults, count \in 0..MaxEntries :
         IF wrap.fn = "EnumeratePhysicalDevices" /\ count = 0
         THEN wrap' = [pc |-> "exit", fn |-> wrap.fn, results |-> <<res1>>,
                       logged |-> Logged(<<res1>>),
                       count |-> count]
         ELSE \E res2 \in VkResults :
                wrap' = [pc |-> "returned", fn |-> wrap.fn, results |-> <<res1, res2>>,
                         logged |-> Logged(<<res1, res2>>),
                         count |-> count]
    /\ UNCHANGED <<toolVars, baseVars, queryVars, infoVars>>

\* VkResult res = vkGetPhysicalDeviceSurfaceCapabilitiesKHR(...);
\* if(res != VK_SUCCESS) LOG(error, ...); return capabilities
CallQueryWrapper ==
    /\ wrap.pc = "call"
    /\ wrap.fn \in QueryWrappers
    /\ \E res \in VkResults :
         wrap' = [pc |-> "returned", fn |-> wrap.fn, results |-> <<res>>,
                  logged |-> Logged(<<res>>)]
    /\ UNCHANGED <<toolVars, baseVars, queryVars, infoVars>>

----------------------------------------------------------------------------
(* The calls of the queue family queries, in the new layout (namespace     *)
(* Vulkan, std::optional<uint32>) and in the old one (namespace            *)
(* Vulkan::Tools, int).  query.queues is what the driver reports for the   *)
(* device of query.physicalDevice.                                         *)

QueueFlagBits == {"VK_QUEUE_GRAPHICS_BIT", "VK_QUEUE_COMPUTE_BIT"}

\* the two overloads of the flag query, and the surface support query
FamilyIndexQueries ==
    {"GetPhysicalDeviceQueueFamilyIndex(list)", "GetPhysicalDeviceQueueFamilyIndex(handle)"}
ToolsFamilyIndexQueries ==
    {"Tools::GetPhysicalDeviceQueueFamilyIndex(list)",
     "Tools::GetPhysicalDeviceQueueFamilyIndex(handle)"}
SurfaceSupportQuery == "GetPhysicalDeviceSurfaceSupportQueueIndex"
ToolsSurfaceSupportQuery == "Tools::GetPhysicalDeviceSurfaceSupportQueueIndex"

QueryReturns(result) == [query EXCEPT !.pc = "returned", !.result = result]
QueryExits == [query EXCEPT !.pc = "exit"]

\* the overload by handle has CHECK_VULKAN_HANDLE(physicalDevice) first
CallGetPhysicalDeviceQueueFamilyIndex ==
    /\ query.pc = "call"
    /\ query.fn \in FamilyIndexQueries
    /\ query' =
         IF /\ query.fn = "GetPhysicalDeviceQueueFamilyIndex(handle)"
            /\ ~CHECK_VULKAN_HANDLE(query.physicalDevice)
         THEN QueryExits
         ELSE QueryReturns(GetPhysicalDeviceQueueFamilyIndex(query.queues, query.flag))
    /\ UNCHANGED <<toolVars, baseVars, wrapVars, infoVars>>

\* CHECK_VULKAN_HANDLE(physicalDevice), CHECK_VULKAN_HANDLE(surface)
CallGetPhysicalDeviceSurfaceSupportQueueIndex ==
    /\ query.pc = "call"
    /\ query.fn = SurfaceSupportQuery
    /\ query' =
         IF ~CHECK_VULKAN_HANDLE(query.physicalDevice) \/ ~CHECK_VULKAN_HANDLE(query.surface)
         THEN QueryExits
         ELSE QueryReturns(GetPhysicalDeviceSurfaceSupportQueueIndex(query.queues))
    /\ UNCHANGED <<toolVars, baseVars, wrapVars, infoVars>>

\* old layout: ASSERT(CheckValidHandle(physicalDevice), ...) in the
\* overload by handle
CallToolsGetPhysicalDeviceQueueFamilyIndex ==
    /\ query.pc = "call"
    /\ query.fn \in ToolsFamilyIndexQueries
    /\ query' =
         IF /\ query.fn = "Tools::GetPhysicalDeviceQueueFamilyIndex(handle)"
            /\ ~CheckValidHandle(query.physicalDevice)
         THEN QueryExits
         ELSE QueryReturns(ToolsGetPhysicalDeviceQueueFamilyIndex(query.queues, query.flag))
    /\ UNCHANGED <<toolVars, baseVars, wrapVars, infoVars>>

\* old layout: ASSERT(CheckValidHandle(...)) of both handles
CallToolsGetPhysicalDeviceSurfaceSupportQueueIndex ==
    /\ query.pc = "call"
    /\ query.fn = ToolsSurfaceSupportQuery
    /\ query' =
         IF ~CheckValidHandle(query.physicalDevice) \/ ~CheckValidHandle(query.surface)
         THEN QueryExits
         ELSE QueryReturns(ToolsGetPhysicalDeviceSurfaceSupportQueueIndex(query.queues))
    /\ UNCHANGED <<toolVars, baseVars, wrapVars, infoVars>>

----------------------------------------------------------------------------
(* Idle values of the variables a specification does not use.              *)

RateIdle   == adapter = "none" /\ rate = [pc |-> "idle"]
SelectIdle ==
    /\ instance = "none" /\ physicalDeviceList = <<>> /\ pc = "idle" /\ i = 0
    /\ score = U32(0) /\ selectedPhysicalDevice = Uninitialized /\ returned = <<>>
FormatIdle == formats = <<>> /\ selectedFormat = [pc |-> "idle"]
ModeIdle   == presentModes = <<>> /\ selectedPresentMode = [pc |-> "idle"]
ExtentIdle == capabilities = "none" /\ window = "none" /\ selectedExtent = [pc |-> "idle"]
BaseIdle   == host = "none" /\ base = "none" /\ call = [op |-> "idle"]
WrapIdle   == wrap = [pc |-> "idle"]
QueryIdle  == query = [pc |-> "idle"]
InfoIdle   == info = [pc |-> "idle"]
ToolsIdle  ==
    surface = VK_NULL_HANDLE /\ RateIdle /\ SelectIdle /\ FormatIdle /\ ModeIdle /\ ExtentIdle

----------------------------------------------------------------------------
(* SpecRate: one call of RatePhysicalDevice(adapter, surface).             *)

InitRate ==
    /\ surface \in Surfaces
    /\ adapter \in Adapters
    /\ rate = [pc |-> "call"]
    /\ SelectIdle /\ FormatIdle /\ ModeIdle /\ ExtentIdle /\ BaseIdle /\ WrapIdle
    /\ QueryIdle /\ InfoIdle

CallRatePhysicalDevice ==
    /\ rate.pc = "call"
    /\ \E junk \in BOOLEAN :
         rate' = [pc |-> "returned",
                  score |-> RatePhysicalDevice(adapter, surface, junk),
                  flagRead |->
                      /\ surface # VK_NULL_HANDLE
                      /\ PresentationReadsFlag(adapter.queues),
                  uninitializedRead |->
                      /\ surface # VK_NULL_HANDLE
                      /\ PresentationReadsUninitialized(adapter.queues)]
    /\ UNCHANGED <<surface, adapter, selectVars, formatVars, modeVars, extentVars, baseVars, wrapVars, queryVars, infoVars>>

NextRate == CallRatePhysicalDevice

SpecRate == InitRate /\ [][NextRate]_vars

----------------------------------------------------------------------------
(* SpecSelect: one call of SelectBestPhysicalDevice(instance, surface) on  *)
(* a host with the adapters of physicalDeviceList.                         *)

InitSelect ==
    /\ surface \in Surfaces
    /\ instance \in Instances
    /\ physicalDeviceList \in DeviceLists
    /\ pc = "start"
    /\ i = 0
    /\ score = U32(0)
    /\ selectedPhysicalDevice = Uninitialized
    /\ returned = <<>>
    /\ RateIdle /\ FormatIdle /\ ModeIdle /\ ExtentIdle /\ BaseIdle /\ WrapIdle
    /\ QueryIdle /\ InfoIdle

NextSelect == SelectEnumerate \/ SelectRate \/ SelectReturn

SpecSelect == InitSelect /\ [][NextSelect]_vars

----------------------------------------------------------------------------
(* SpecFormat, SpecPresentMode, SpecExtent: one call of each of the        *)
(* swapchain selections.                                                   *)

InitFormat ==
    /\ surface = VK_NULL_HANDLE
    /\ formats \in FormatLists
    /\ selectedFormat = [pc |-> "call"]
    /\ RateIdle /\ SelectIdle /\ ModeIdle /\ ExtentIdle /\ BaseIdle /\ WrapIdle
    /\ QueryIdle /\ InfoIdle

NextFormat == CallSelectSwapchainSurfaceFormat

SpecFormat == InitFormat /\ [][NextFormat]_vars

InitPresentMode ==
    /\ surface = VK_NULL_HANDLE
    /\ presentModes \in PresentModeLists
    /\ selectedPresentMode = [pc |-> "call"]
    /\ RateIdle /\ SelectIdle /\ FormatIdle /\ ExtentIdle /\ BaseIdle /\ WrapIdle
    /\ QueryIdle /\ InfoIdle

NextPresentMode == CallSelectSwapchainSurfacePresentMode

SpecPresentMode == InitPresentMode /\ [][NextPresentMode]_vars

InitExtent ==
    /\ surface = VK_NULL_HANDLE
    /\ capabilities \in SurfaceCapabilities
    /\ window \in WindowSizes
    /\ selectedExtent = [pc |-> "call"]
    /\ RateIdle /\ SelectIdle /\ FormatIdle /\ ModeIdle /\ BaseIdle /\ WrapIdle
    /\ QueryIdle /\ InfoIdle

NextExtent == CallSelectSwapchainSurfaceImageExtent

SpecExtent == InitExtent /\ [][NextExtent]_vars

----------------------------------------------------------------------------
(* SpecBase: a VulkanBase object on a host, its methods called in any      *)
(* order until one of them ends the process.                               *)

InitBase ==
    /\ host \in Hosts
    /\ base = VulkanBase(host)
    /\ call = Returns("VulkanBase", FALSE)
    /\ ToolsIdle /\ WrapIdle /\ QueryIdle /\ InfoIdle

NextBase ==
    \/ EnableInstanceExtension
    \/ EnableInstanceLayer
    \/ CreateInstance
    \/ CreateSurface
    \/ SelectPhysicalDevice
    \/ EnableDeviceExtension
    \/ CreateDevice
    \/ CreateSwapchain

SpecBase == InitBase /\ [][NextBase]_vars

----------------------------------------------------------------------------
(* SpecWrap: one call of a wrapper of a native call, with valid handles.   *)

InitWrap ==
    /\ wrap \in [pc : {"call"}, fn : CreateWrappers \cup EnumerateWrappers \cup QueryWrappers]
    /\ ToolsIdle /\ BaseIdle /\ QueryIdle /\ InfoIdle

NextWrap == CallCreateWrapper \/ CallEnumerateWrapper \/ CallQueryWrapper

SpecWrap == InitWrap /\ [][NextWrap]_vars

----------------------------------------------------------------------------
(* SpecQuery: one call of a queue family query.  The overloads by list are *)
(* handed no handle; the surface is read by the surface support queries    *)
(* only.                                                                   *)

InitQuery ==
    /\ query \in
         [pc : {"call"}, fn : {"GetPhysicalDeviceQueueFamilyIndex(list)",
                               "Tools::GetPhysicalDeviceQueueFamilyIndex(list)"},
          physicalDevice : {"none"}, surface : {"none"},
          queues : QueueLists, flag : QueueFlagBits, result : {"none"}]
         \cup
         [pc : {"call"}, fn : {"GetPhysicalDeviceQueueFamilyIndex(handle)",
                               "Tools::GetPhysicalDeviceQueueFamilyIndex(handle)"},
          physicalDevice : {VK_NULL_HANDLE, PhysicalDeviceHandle(1)}, surface : {"none"},
          queues : QueueLists, flag : QueueFlagBits, result : {"none"}]
         \cup
         [pc : {"call"}, fn : {SurfaceSupportQuery, ToolsSurfaceSupportQuery},
          physicalDevice : {VK_NULL_HANDLE, PhysicalDeviceHandle(1)}, surface : Surfaces,
          queues : QueueLists, flag : {"none"}, result : {"none"}]
    /\ ToolsIdle /\ BaseIdle /\ WrapIdle /\ InfoIdle

NextQuery ==
    \/ CallGetPhysicalDeviceQueueFamilyIndex
    \/ CallGetPhysicalDeviceSurfaceSupportQueueIndex
    \/ CallToolsGetPhysicalDeviceQueueFamilyIndex
    \/ CallToolsGetPhysicalDeviceSurfaceSupportQueueIndex

SpecQuery == InitQuery /\ [][NextQuery]_vars

----------------------------------------------------------------------------
(* SpecInfo: one call of Init::SwapchainCreateInfo for an adapter, a       *)
(* window and the capabilities of its surface.                             *)

InitInfo ==
    /\ info \in [pc : {"call"}, physicalDevice : BaseAdapters, window : WindowSizes,
                 surfaceCapabilities : InfoCapabilities]
    /\ ToolsIdle /\ BaseIdle /\ WrapIdle /\ QueryIdle

NextInfo == CallSwapchainCreateInfo

SpecInfo == InitInfo /\ [][NextInfo]_vars

----------------------------------------------------------------------------
(* The claims.                                                             *)

\* the adapter reports the swapchain extension
HasSwapchainExtension(a) ==
    \E k \in 1..Len(a.extensions) : a.extensions[k] = "VK_KHR_swapchain"

\* some queue family of the adapter can present to the surface
HasPresentationFamily(a) ==
    \E k \in 1..Len(a.queues) : a.queues[k].surfaceSupport

\* C1 (SpecRate): with a non-null surface, an adapter none of whose queue
\* families supports presentation to the surface is rated 0.
C1_NoPresentationFamilyRatesZero ==
    (rate.pc = "returned" /\ surface # VK_NULL_HANDLE /\ ~HasPresentationFamily(adapter))
        => rate.score = U32(0)

\* C2 (SpecRate): an adapter whose extension list lacks the swapchain
\* extension is rated 0, with or without a surface, whatever else it has.
C2_NoSwapchainExtensionRatesZero ==
    (rate.pc = "returned" /\ ~HasSwapchainExtension(adapter))
        => rate.score = U32(0)

\* C2 witness: an adapter without the extension that has limits, a graphics
\* family, a presenting family, present modes and formats, rated 0 for a
\* surface.
C2_Witness ==
    /\ rate.pc = "returned"
    /\ ~HasSwapchainExtension(adapter)
    /\ adapter.extensions # <<>>
    /\ surface # VK_NULL_HANDLE
    /\ adapter.limits = DesktopLimits
    /\ HasPresentationFamily(adapter)
    /\ \E k \in 1..Len(adapter.queues) : "VK_QUEUE_GRAPHICS_BIT" \in adapter.queues[k].queueFlags
    /\ adapter.presentModeCount > 0
    /\ adapter.surfaceFormatCount > 0
    /\ rate.score = U32(0)

\* the score of the k-th adapter of the host for the surface
ScoreOf(k) == RatePhysicalDevice(physicalDeviceList[k], surface, TRUE)

Devices == 1..Len(physicalDeviceList)

SelectDone == pc \in {"returned", "exit"}

\* C3 (SpecSelect): when some adapter of the list has a score > 0, the
\* selection returns an adapter of the list whose score is > 0 and is the
\* maximum of the scores of the list.
C3_SelectReturnsMaximum ==
    (SelectDone /\ instance # VK_NULL_HANDLE
        /\ \E k \in Devices : U32Less(U32(0), ScoreOf(k)))
    => /\ pc = "returned"
       /\ \E k \in Devices :
            /\ returned = <<k>>
            /\ U32Less(U32(0), ScoreOf(k))
            /\ \A j \in Devices : ~U32Less(ScoreOf(k), ScoreOf(j))

\* C3 witness: the second of two adapters with different positive scores
\* is returned.
C3_Witness ==
    /\ pc = "returned"
    /\ Len(physicalDeviceList) = 2
    /\ U32Less(U32(0), ScoreOf(1))
    /\ U32Less(ScoreOf(1), ScoreOf(2))
    /\ returned = <<2>>

\* C4 (SpecSelect): when every adapter scores 0 the selection returns no
\* handle: it ends in the assertion failure, selectedPhysicalDevice never
\* read.
C4_AllZeroFails ==
    (\A k \in Devices : ScoreOf(k) = U32(0))
        => (pc # "returned" /\ returned = <<>>)

\* C4 witness: a scan of two zero-scored adapters has ended in the
\* assertion failure with selectedPhysicalDevice never assigned.
C4_Witness ==
    /\ pc = "exit"
    /\ instance # VK_NULL_HANDLE
    /\ Len(physicalDeviceList) = 2
    /\ i > Len(physicalDeviceList)
    /\ \A k \in Devices : ScoreOf(k) = U32(0)
    /\ selectedPhysicalDevice = Uninitialized
    /\ returned = <<>>

\* C5 (SpecSelect): among the adapters that share the score of the returned
\* one, the returned one comes first in the list.
C5_FirstOfTiesWins ==
    pc = "returned"
        => \A k, j \in Devices :
             (returned = <<k>> /\ ScoreOf(j) = ScoreOf(k)) => k <= j

\* C5 witness: two adapters with the same positive score, the first one
\* returned.
C5_Witness ==
    /\ pc = "returned"
    /\ Len(physicalDeviceList) = 2
    /\ ScoreOf(1) = ScoreOf(2)
    /\ U32Less(U32(0), ScoreOf(1))
    /\ physicalDeviceList[1] # physicalDeviceList[2]
    /\ returned = <<1>>

\* C6 (SpecRate): with a non-null surface, an adapter that reports no
\* present mode or no surface format for it is rated 0.
C6_NoModesOrFormatsRatesZero ==
    (rate.pc = "returned" /\ surface # VK_NULL_HANDLE
        /\ (adapter.presentModeCount = 0 \/ adapter.surfaceFormatCount = 0))
    => rate.score = U32(0)

\* C6 witness: an adapter with the swapchain extension, limits, a presenting
\* graphics family and formats, but no present mode, rated 0.
C6_Witness ==
    /\ rate.pc = "returned"
    /\ surface # VK_NULL_HANDLE
    /\ adapter.presentModeCount = 0
    /\ adapter.surfaceFormatCount > 0
    /\ HasSwapchainExtension(adapter)
    /\ HasPresentationFamily(adapter)
    /\ adapter.limits = DesktopLimits
    /\ rate.score = U32(0)

PreferredFormat ==
    [format |-> "VK_FORMAT_B8G8R8A8_SRGB", colorSpace |-> "VK_COLOR_SPACE_SRGB_NONLINEAR_KHR"]

HasPreferredFormat == \E k \in 1..Len(formats) : formats[k] = PreferredFormat

\* C7 (SpecFormat): a list that holds the preferred pair at any position
\* yields exactly that pair.
C7_PreferredFormatSelected ==
    (selectedFormat.pc # "call" /\ HasPreferredFormat)
        => selectedFormat = [pc |-> "returned", format |-> PreferredFormat]

\* C7 witness: the preferred pair is the last of three entries, after an
\* entry with only the format and one with only the colour space.
C7_Witness ==
    /\ selectedFormat = [pc |-> "returned", format |-> PreferredFormat]
    /\ Len(formats) = 3
    /\ formats[3] = PreferredFormat
    /\ formats[1].format = PreferredFormat.format
    /\ formats[1].colorSpace # PreferredFormat.colorSpace
    /\ formats[2].format # PreferredFormat.format
    /\ formats[2].colorSpace = PreferredFormat.colorSpace

\* C8 (SpecFormat): a non-empty list without the preferred pair yields its
\* first entry.
C8_FirstFormatIsFallback ==
    (selectedFormat.pc # "call" /\ formats # <<>> /\ ~HasPreferredFormat)
        => selectedFormat = [pc |-> "returned", format |-> formats[1]]

\* C8 witness: no entry is the preferred pair, the second has its format
\* and the third its colour space, and the first entry is returned.
C8_Witness ==
    /\ selectedFormat.pc = "returned"
    /\ Len(formats) = 3
    /\ ~HasPreferredFormat
    /\ formats[1].format # PreferredFormat.format
    /\ formats[1].colorSpace # PreferredFormat.colorSpace
    /\ formats[2].format = PreferredFormat.format
    /\ formats[3].colorSpace = PreferredFormat.colorSpace
    /\ selectedFormat.format = formats[1]

\* the entries of a list, with their numbers of occurrences left out
Entries(l) == { l[k] : k \in 1..Len(l) }

\* C9 (SpecPresentMode): the result is MAILBOX when MAILBOX is in the list
\* and FIFO otherwise, and every list with the same entries gets the result
\* of this one.
C9_MailboxElseFifo ==
    selectedPresentMode.pc = "returned"
        => /\ selectedPresentMode.mode =
                IF "VK_PRESENT_MODE_MAILBOX_KHR" \in Entries(presentModes)
                THEN "VK_PRESENT_MODE_MAILBOX_KHR"
                ELSE "VK_PRESENT_MODE_FIFO_KHR"
           /\ \A l \in PresentModeLists :
                Entries(l) = Entries(presentModes)
                    => SelectSwapchainSurfacePresentMode(l) = selectedPresentMode.mode

\* C9 witness: MAILBOX is the last entry, after FIFO, and is returned.
C9_Witness ==
    /\ selectedPresentMode.pc = "returned"
    /\ Len(presentModes) = 3
    /\ presentModes[1] = "VK_PRESENT_MODE_FIFO_KHR"
    /\ presentModes[2] = "VK_PRESENT_MODE_IMMEDIATE_KHR"
    /\ presentModes[3] = "VK_PRESENT_MODE_MAILBOX_KHR"
    /\ selectedPresentMode.mode = "VK_PRESENT_MODE_MAILBOX_KHR"

\* C10 (SpecExtent): when currentExtent.width is not 0xFFFFFFFF the result
\* is currentExtent, width and height.
C10_DefinedExtentReturned ==
    (selectedExtent.pc = "returned" /\ capabilities.currentExtent.width # UINT32_MAX)
        => selectedExtent.extent = capabilities.currentExtent

\* C10 witness: a current extent of 5000 x 5000, above the maximum extent
\* and unlike the window size, is returned.
C10_Witness ==
    /\ selectedExtent.pc = "returned"
    /\ capabilities.currentExtent = Extent(5000, 5000)
    /\ capabilities.maxImageExtent = Extent(1024, 1024)
    /\ window = [w |-> 800, h |-> 600]
    /\ selectedExtent.extent = Extent(5000, 5000)

\* a <= b on uint32
U32AtMost(a, b) == a.hi < b.hi \/ (a.hi = b.hi /\ a.lo <= b.lo)

\* the value of a dimension that the claim C11 allows for the window size
\* `size`, the minimum `least` and the maximum `most`: the window size when
\* it is in range, else the bound it is beyond; the minimum when the range
\* is empty
ClampedDimension(size, least, most, result) ==
    /\ U32AtMost(least, most) =>
          /\ U32AtMost(least, result) /\ U32AtMost(result, most)
          /\ (U32AtMost(least, size) /\ U32AtMost(size, most)) => result = size
          /\ U32Less(size, least) => result = least
          /\ U32Less(most, size) => result = most
    /\ U32Less(most, least) => result = least

\* C11 (SpecExtent): when currentExtent.width is 0xFFFFFFFF, each dimension
\* of the result is max(minImageExtent, min(maxImageExtent, window size)),
\* width and height independently: with minImageExtent <= maxImageExtent it
\* lies in [minImageExtent, maxImageExtent] and is the window size when
\* that is in range.
C11_UndefinedExtentClampsWindow ==
    (selectedExtent.pc = "returned" /\ capabilities.currentExtent.width = UINT32_MAX)
        => /\ ClampedDimension(U32(window.w), capabilities.minImageExtent.width,
                               capabilities.maxImageExtent.width, selectedExtent.extent.width)
           /\ ClampedDimension(U32(window.h), capabilities.minImageExtent.height,
                               capabilities.maxImageExtent.height, selectedExtent.extent.height)

\* C11 witness: a window of 0 x 0 is raised to the minimum extent 1 x 1.
C11_Witness ==
    /\ selectedExtent.pc = "returned"
    /\ capabilities.currentExtent = UndefinedExtent
    /\ capabilities.minImageExtent = Extent(1, 1)
    /\ capabilities.maxImageExtent = Extent(1024, 1024)
    /\ window = [w |-> 0, h |-> 0]
    /\ selectedExtent.extent = Extent(1, 1)

\* some queue family of the adapter has the flag
HasFamilyWith(a, flag) ==
    \E k \in 1..Len(a.queues) : flag \in a.queues[k].queueFlags

\* the adapter passes every check that sets the score to 0
PassesHardChecks(a, surf) ==
    /\ HasSwapchainExtension(a)
    /\ surf # "VK_NULL_HANDLE" => (a.presentModeCount > 0 /\ a.surfaceFormatCount > 0)

\* the adapters that differ from `a` in their queue families only, and
\* there only in how many of them (none, or at least one) carry the
\* graphics flag, the compute flag and the support of the surface
SameFamilyKinds(a) ==
    { b \in { [a EXCEPT !.queues = q] : q \in QueueLists } :
        /\ HasFamilyWith(b, "VK_QUEUE_GRAPHICS_BIT") = HasFamilyWith(a, "VK_QUEUE_GRAPHICS_BIT")
        /\ HasFamilyWith(b, "VK_QUEUE_COMPUTE_BIT") = HasFamilyWith(a, "VK_QUEUE_COMPUTE_BIT")
        /\ HasPresentationFamily(b) = HasPresentationFamily(a) }

\* C12 (SpecRate): the graphics bonus 100000 is added once when at least
\* one family has the graphics flag, the compute bonus 50000 once when at
\* least one has the compute flag: two adapters that differ only in how
\* many families carry each flag get the same score.
C12_QueueBonusOnce ==
    (rate.pc = "returned" /\ PassesHardChecks(adapter, surface))
        => \A b \in SameFamilyKinds(adapter) :
             RatePhysicalDevice(b, surface, TRUE) = rate.score

\* the sum of value * weight over a list of <<value, weight>>, on uint32
RECURSIVE WeightedSum(_)
WeightedSum(terms) ==
    IF terms = <<>> THEN U32(0)
    ELSE U32Add(U32Mul(Head(terms)[1], Head(terms)[2]), WeightedSum(Tail(terms)))

\* the share of the limits in the score, as C13 states it
LimitsShare(a) ==
    U32Add(WeightedSum(<< <<a.limits.maxColorAttachments, 100>>,
                          <<a.limits.maxDescriptorSetInputAttachments, 100>>,
                          <<a.limits.maxImageDimension2D, 1000>>,
                          <<a.limits.maxImageArrayLayers, 10>>,
                          <<a.limits.maxViewports, 500>>,
                          <<a.limits.memoryHeapCount, 1000>> >>),
           U32(IF a.multiViewport THEN 500 ELSE 0))

\* the adapter with every rated limit 0 and without the multi-viewport feature
WithoutLimits(a) == [a EXCEPT !.limits = NoLimits, !.multiViewport = FALSE]

\* C13 (SpecRate): for an adapter that passes the hard checks, the part of
\* the score that comes from the limits (the score less the score of the
\* same adapter with all limits 0 and no multi-viewport feature) is
\* 100*maxColorAttachments + 100*maxDescriptorSetInputAttachments
\* + 1000*maxImageDimension2D + 10*maxImageArrayLayers + 500*maxViewports
\* + 1000*memoryHeapCount, plus 500 with the multi-viewport feature, the
\* sum taken in the uint32 arithmetic of the score.
C13_LimitsShare ==
    (rate.pc = "returned" /\ PassesHardChecks(adapter, surface))
        => rate.score =
             U32Add(RatePhysicalDevice(WithoutLimits(adapter), surface, TRUE),
                    LimitsShare(adapter))

\* C13 witness: a desktop adapter with the multi-viewport feature and no
\* queue family, rated 16416580 without a surface.
C13_Witness ==
    /\ rate.pc = "returned"
    /\ surface = "VK_NULL_HANDLE"
    /\ adapter.limits = DesktopLimits
    /\ adapter.multiViewport
    /\ adapter.queues = <<>>
    /\ HasSwapchainExtension(adapter)
    /\ rate.score = U32(16416580)

\* what one queue family with the graphics flag adds to a score of 0
GraphicsBonus ==
    RateQueues(U32(0), <<[queueFlags |-> {"VK_QUEUE_GRAPHICS_BIT"}, surfaceSupport |-> FALSE]>>)

\* C14 (SpecRate): with a surface and a queue family that can present to
\* it, the score of an adapter that passes the hard checks is its score
\* without a surface plus 110000, and 110000 is more than the graphics
\* bonus 100000.
C14_PresentationBonus ==
    (rate.pc = "returned" /\ surface # "VK_NULL_HANDLE"
        /\ HasPresentationFamily(adapter) /\ PassesHardChecks(adapter, surface))
    => /\ rate.score =
            U32Add(RatePhysicalDevice(adapter, "VK_NULL_HANDLE", TRUE), U32(110000))
       /\ GraphicsBonus = U32(100000)
       /\ U32Less(GraphicsBonus, U32(110000))

\* C14 witness: an adapter with all limits 0 whose only queue family has no
\* flag but presents to the surface is rated 110000.
C14_Witness ==
    /\ rate.pc = "returned"
    /\ surface # "VK_NULL_HANDLE"
    /\ adapter.limits = NoLimits
    /\ ~adapter.multiViewport
    /\ adapter.queues = <<[queueFlags |-> {}, surfaceSupport |-> TRUE]>>
    /\ PassesHardChecks(adapter, surface)
    /\ rate.score = U32(110000)

\* some attribute of the adapter adds to the score: a limit above 0, the
\* multi-viewport feature, or a compute family
HasPositiveAttribute(a) ==
    \/ \E f \in DOMAIN a.limits : a.limits[f] # U32(0)
    \/ a.multiViewport
    \/ HasFamilyWith(a, "VK_QUEUE_COMPUTE_BIT")

\* C15 (SpecRate): an adapter without a graphics family that has the
\* swapchain extension and a positive scored attribute and passes the
\* surface checks (or is rated without a surface) gets a score above 0.
C15_NoGraphicsStillPositive ==
    (rate.pc = "returned"
        /\ ~HasFamilyWith(adapter, "VK_QUEUE_GRAPHICS_BIT")
        /\ PassesHardChecks(adapter, surface)
        /\ HasPositiveAttribute(adapter))
    => U32Less(U32(0), rate.score)

\* C16 (SpecSelect): an adapter returned by SelectBestPhysicalDevice
\* reports the swapchain extension among its device extensions.
C16_ReturnedHasSwapchainExtension ==
    pc = "returned"
        => \E k \in Devices :
             /\ returned = <<k>>
             /\ HasSwapchainExtension(physicalDeviceList[k])

\* C16 witness: the first adapter has the better limits and queue families
\* but lacks the extension; the second, which has it, is returned.
C16_Witness ==
    /\ pc = "returned"
    /\ Len(physicalDeviceList) = 2
    /\ ~HasSwapchainExtension(physicalDeviceList[1])
    /\ physicalDeviceList[1].limits = DesktopLimits
    /\ HasFamilyWith(physicalDeviceList[1], "VK_QUEUE_GRAPHICS_BIT")
    /\ physicalDeviceList[2].limits = NoLimits
    /\ HasSwapchainExtension(physicalDeviceList[2])
    /\ returned = <<2>>

\* C17 (SpecBase): EnableInstanceLayer(name) for a name of
\* availableInstanceLayers returns true, makes the name a member of
\* instanceLayers and leaves instanceExtensions as it was; for a name that
\* is in instanceLayers already it changes nothing.
C17_EnableInstanceLayer ==
    [][ (call'.op = "EnableInstanceLayer"
            /\ call'.name \in Entries(base.availableInstanceLayers))
        => /\ call'.outcome = "returned" /\ call'.result
           /\ call'.name \in Entries(base'.instanceLayers)
           /\ base'.instanceExtensions = base.instanceExtensions
           /\ call'.name \in Entries(base.instanceLayers) => base' = base ]_vars

\* how often a name occurs in a list
Occurrences(l, name) == Cardinality({ k \in 1..Len(l) : l[k] = name })

\* a call of an Enable...Extension function as C18 states it, for the
\* available list and the enabled list before and after the call: the
\* call returns whether the name is available, leaves the enabled list as
\* it was for a name that is enabled already or is unavailable, and gives
\* no name a second occurrence
EnablesOnce(available, enabled, enabledAfter) ==
    /\ call'.outcome = "returned"
    /\ call'.result = (call'.name \in Entries(available))
    /\ (call'.name \in Entries(enabled) \/ call'.name \notin Entries(available))
          => enabledAfter = enabled
    /\ call'.name \in Entries(enabledAfter) <=>
          (call'.name \in Entries(enabled) \/ call'.name \in Entries(available))
    /\ \A n \in Entries(enabledAfter) :
          Occurrences(enabled, n) <= 1 => Occurrences(enabledAfter, n) = 1

\* C18 (SpecBase): EnableInstanceExtension and EnableDeviceExtension return
\* true iff the name is in the available list; a call for a name that is
\* enabled already or unavailable leaves the enabled list unchanged; and
\* no name these calls enable occurs twice in instanceExtensions or in
\* deviceExtensions.
C18_EnableExtensionOnce ==
    [][ /\ call'.op = "EnableInstanceExtension"
            => EnablesOnce(base.availableInstanceExtensions,
                           base.instanceExtensions, base'.instanceExtensions)
        /\ call'.op = "EnableDeviceExtension"
            => EnablesOnce(base.availableDeviceExtensions,
                           base.deviceExtensions, base'.deviceExtensions)
        /\ \A n \in InstanceExtensionNames : Occurrences(base'.instanceExtensions, n) <= 1
        /\ \A n \in DeviceExtensionNames : Occurrences(base'.deviceExtensions, n) <= 1 ]_vars

\* C18 witness: EnableInstanceExtension has returned true for a name that
\* was enabled before the other enabled name was, so the call found it
\* enabled; the list holds each of the two names once.
C18_Witness ==
    /\ call.op = "EnableInstanceExtension"
    /\ call.outcome = "returned"
    /\ call.result
    /\ call.name = "VK_KHR_surface"
    /\ base.instanceExtensions = <<"VK_KHR_surface", "VK_EXT_debug_utils">>

\* C19 (SpecWrap): a wrapper whose native call returns a result code other
\* than VK_SUCCESS ends in the assertion failure and returns nothing to
\* its caller, the Create wrappers and the enumeration and query wrappers
\* alike.
C19_ResultCodeValidated ==
    wrap.pc = "returned"
        => \A k \in 1..Len(wrap.results) : wrap.results[k] = "VK_SUCCESS"

\* the handle that the last call needs is VK_NULL_HANDLE (none of the
\* calls writes a handle it needs, so this is the handle it found)
PrerequisiteIsNull ==
    \/ call.op \in {"CreateSurface", "SelectPhysicalDevice"}
        /\ base.instance = "VK_NULL_HANDLE"
    \/ call.op = "CreateDevice"
        /\ base.physicalDevice = "VK_NULL_HANDLE"
    \/ call.op = "CreateSwapchain"
        /\ "VK_NULL_HANDLE" \in {base.physicalDevice, base.surface, base.device}

\* C20 (SpecBase): in any order of VulkanBase calls, a call whose
\* prerequisite handle is VK_NULL_HANDLE ends in the assertion failure
\* and hands no null handle to a native function.
C20_NullHandleAsserts ==
    PrerequisiteIsNull => (call.outcome = "exit" /\ ~call.forwardedNull)

----------------------------------------------------------------------------
(* C21, C22: the queue family queries.                                     *)

\* the families (counted from 1) that have the flag / support the surface
FamiliesWith(queues, flag) == { k \in 1..Len(queues) : flag \in queues[k].queueFlags }
FamiliesPresenting(queues) == { k \in 1..Len(queues) : queues[k].surfaceSupport }

\* idx (counted from 0) is the highest / the lowest member of found
IsHighest(found, idx) == idx + 1 \in found /\ \A k \in found : k <= idx + 1
IsLowest(found, idx)  == idx + 1 \in found /\ \A k \in found : idx + 1 <= k

\* C21: GetPhysicalDeviceQueueFamilyIndex(families, flag) returns a value
\* iff some family has the flag, the value is the highest index of a family
\* with the flag, and without a match the result is the empty optional (-1
\* in the int variant of Vulkan::Tools)
C21_HighestFamilyWithFlag ==
    (query.pc = "returned" /\ query.fn \in FamilyIndexQueries \cup ToolsFamilyIndexQueries) =>
        LET found == FamiliesWith(query.queues, query.flag)
        IN  IF query.fn \in FamilyIndexQueries
            THEN /\ (query.result # <<>>) <=> (found # {})
                 /\ found # {} => IsHighest(found, query.result[1])
            ELSE /\ (query.result >= 0) <=> (found # {})
                 /\ found # {} => IsHighest(found, query.result)
                 /\ found = {} => query.result = -1

\* two families have the flag, and the later one is returned
C21_Witness ==
    /\ query.pc = "returned"
    /\ query.fn = "GetPhysicalDeviceQueueFamilyIndex(handle)"
    /\ FamiliesWith(query.queues, query.flag) = {1, 2}
    /\ query.result = <<1>>

\* C22: GetPhysicalDeviceSurfaceSupportQueueIndex(adapter, surface) returns
\* the lowest index of a family that supports presentation to the surface,
\* and the not-found result iff no family supports it
C22_LowestPresentingFamily ==
    (query.pc = "returned" /\ query.fn \in {SurfaceSupportQuery, ToolsSurfaceSupportQuery}) =>
        LET found == FamiliesPresenting(query.queues)
        IN  IF query.fn = SurfaceSupportQuery
            THEN /\ (query.result = <<>>) <=> (found = {})
                 /\ found # {} => IsLowest(found, query.result[1])
            ELSE /\ (query.result = -1) <=> (found = {})
                 /\ found # {} => IsLowest(found, query.result)

\* two families support the surface, and the earlier one is returned
C22_Witness ==
    /\ query.pc = "returned"
    /\ query.fn = SurfaceSupportQuery
    /\ FamiliesPresenting(query.queues) = {1, 2}
    /\ query.result = <<0>>

----------------------------------------------------------------------------
(* C23: the presentationSupported flag after the presentation loop.        *)

\* the call was made with a surface; the loop ran over all families and
\* found none that supports it
NoFamilyPresents ==
    /\ rate.pc = "returned"
    /\ surface # VK_NULL_HANDLE
    /\ FamiliesPresenting(adapter.queues) = {}

----------------------------------------------------------------------------
(* C24: the adapter selected for a surface and the presentation index.     *)

\* SelectPhysicalDevice has just returned, and it was called with a surface
SelectedWithSurface(b, c) ==
    /\ c.op = "SelectPhysicalDevice"
    /\ c.outcome = "returned"
    /\ b.surface # VK_NULL_HANDLE

\* CreateDevice left through
\* ASSERT(presentIdx.has_value(), "SELECTED DEVICE DOESN'T SUPPORT SURFACE PRESENTATION")
PresentationAssertFailed(b, c) ==
    /\ c.op = "CreateDevice"
    /\ c.outcome = "exit"
    /\ b.surface # VK_NULL_HANDLE
    /\ b.graphicsIdx # <<>>
    /\ b.presentIdx = <<>>

\* C24: an adapter that SelectBestPhysicalDevice returns for a non-null
\* surface has a queue family that presents to it, so that CreateDevice
\* right after SelectPhysicalDevice never fails the assertion on presentIdx
C24_SelectedAdapterPresents ==
    [][ /\ SelectedWithSurface(base', call') =>
             GetPhysicalDeviceSurfaceSupportQueueIndex(
                 PhysicalDeviceOf(base'.physicalDevice).queues) # <<>>
        /\ SelectedWithSurface(base, call) => ~PresentationAssertFailed(base', call')
      ]_vars

----------------------------------------------------------------------------
(* C25: the adapter selected for a surface and its format and mode lists.  *)

\* the adapter VulkanBase::physicalDevice names
SelectedAdapter(b) == PhysicalDeviceOf(b.physicalDevice)

\* C25: an adapter that SelectBestPhysicalDevice returns for a non-null
\* surface reports at least one surface format and one present mode, and
\* the SwapchainCreateInfo that follows does not read formats[0] of an
\* empty list
C25_SelectedAdapterHasFormats ==
    [][ /\ SelectedWithSurface(base', call') =>
             /\ SurfaceFormatsOf(SelectedAdapter(base')) # <<>>
             /\ SelectedAdapter(base').presentModeCount > 0
        /\ (SelectedWithSurface(base, call) /\ call'.op = "CreateSwapchain") =>
             call'.outcome # "crashed"
      ]_vars

\* an adapter was selected for a surface on a host that has an adapter
\* with an empty list as well
C25_Witness ==
    /\ SelectedWithSurface(base, call)
    /\ Len(host.physicalDevices) = 2
    /\ host.physicalDevices[1].surfaceFormatCount = 0
    /\ SurfaceFormatsOf(SelectedAdapter(base)) # <<>>

----------------------------------------------------------------------------
(* C26: CreateDevice without a surface.                                    *)

\* CreateDevice was called on a selected adapter that has a graphics
\* family, and no surface was created
CreateDeviceWithoutSurface ==
    /\ call.op = "CreateDevice"
    /\ base.physicalDevice # VK_NULL_HANDLE
    /\ base.surface = VK_NULL_HANDLE
    /\ base.graphicsIdx # <<>>

\* C26: without a surface, CreateDevice on a selected adapter with a
\* graphics family completes normally and never reads the value of the
\* empty presentIdx (it returns, or leaves through the ASSERT on the result
\* of vkCreateDevice when the driver fails)
C26_CreateDeviceWithoutSurface ==
    CreateDeviceWithoutSurface =>
        /\ base.presentIdx = <<>>
        /\ call.outcome \in {"returned", "exit"}

----------------------------------------------------------------------------
(* C28: the image count of the swapchain create info.                      *)

\* SwapchainCreateInfo returned a create info
InfoReturned == info.pc = "done" /\ info.swapchainCreateInfo.pc = "returned"

\* b = a + 1 as integers (a + 1 is representable)
IsSuccessor(a, b) == a # UINT32_MAX /\ b = U32Add(a, U32(1))

\* the image count the claim describes for the capabilities: maxImageCount
\* when it is non-zero and minImageCount + 1 exceeds it, else
\* minImageCount + 1
IsClaimedImageCount(surfaceCapabilities, count) ==
    LET least == surfaceCapabilities.minImageCount
        most  == surfaceCapabilities.maxImageCount
    IN  IF U32Less(U32(0), most) /\ U32AtMost(most, least)
        THEN count = most
        ELSE IsSuccessor(least, count)

\* C28: the image count is minImageCount + 1, reduced to maxImageCount when
\* maxImageCount > 0 and minImageCount + 1 exceeds it; it never exceeds a
\* non-zero maxImageCount, and it is at least minImageCount whenever
\* maxImageCount == 0 or minImageCount <= maxImageCount
C28_ImageCount ==
    InfoReturned =>
        LET least == info.surfaceCapabilities.minImageCount
            most  == info.surfaceCapabilities.maxImageCount
            count == info.swapchainCreateInfo.minImageCount
        IN  /\ IsClaimedImageCount(info.surfaceCapabilities, count)
            /\ U32Less(U32(0), most) => U32AtMost(count, most)
            /\ (most = U32(0) \/ U32AtMost(least, most)) => U32AtMost(least, count)

----------------------------------------------------------------------------
(* C27: the window of the surface and the window of the swapchain.         *)

\* the window every surface of the model was created for (CreateSurface
\* asserts on nullptr)
SurfaceWindow == "window"

\* CreateSwapchain got as far as the extent selection
ExtentSelected == call.op = "CreateSwapchain" /\ call.outcome \in {"returned", "terminate"}

\* C27: after CreateSurface(w) the member VulkanBase::window is w, and the
\* window that CreateSwapchain hands to the extent selection is the window
\* the surface was created for
C27_WindowOfSurface ==
    /\ (call.op = "CreateSurface" /\ call.outcome = "returned") => base.window = call.window
    /\ ExtentSelected => call.window = SurfaceWindow

----------------------------------------------------------------------------
(* C29: the accumulation of the score in uint32.                           *)

\* limits to compare the rated adapter with: those of the model, and one
\* array layer with every other limit 0
OneLayerLimits == [NoLimits EXCEPT !.maxImageArrayLayers = U32(1)]
ComparedLimits == DeviceLimits \cup {OneLayerLimits}

\* l is below m in exactly one scored limit, and equal to it in the others
BelowInOneLimit(l, m) ==
    \E f \in DOMAIN l :
        /\ U32Less(l[f], m[f])
        /\ \A g \in DOMAIN l \ {f} : l[g] = m[g]

\* C29: the score is accumulated without wrap-around: of two adapters that
\* pass all hard checks and differ only in one scored limit, the one with
\* the larger limit never gets the lower score, and an adapter with a
\* positive limit never gets the score 0
C29_ScoreHasNoWrapAround ==
    (rate.pc = "returned" /\ PassesHardChecks(adapter, surface)) =>
        /\ \A l \in ComparedLimits :
             BelowInOneLimit(l, adapter.limits) =>
                 U32AtMost(RatePhysicalDevice([adapter EXCEPT !.limits = l], surface, TRUE),
                           rate.score)
        /\ (\E f \in DOMAIN adapter.limits : U32Less(U32(0), adapter.limits[f])) =>
             rate.score # U32(0)

====
